---- MODULE Spec2Model ----
(***************************************************************************)
(* Credit Ledger Reconciliation Engine.                                    *)
(*                                                                         *)
(* Part 1 (SpecLedger): the backend's getCreditEvents                      *)
(* (src/backend/src/lib/chain.ts) reading the token contract's event log   *)
(* through the cached provider/contract, and the /ledger route that        *)
(* serves its result.                                                      *)
(* Part 2 (SpecPool): the frontend's getDirectProvider                     *)
(* (src/frontend/src/lib/chain.ts) selecting an RPC endpoint.              *)
(* Part 3 (SpecReader): the frontend's reads getOwnedTokens and            *)
(* isTokenRetired through the selected endpoint.                           *)
(* Part 4 (SpecCalls): the frontend's submissions through the signer       *)
(* contract, and the backend's isTokenRetired.                             *)
(* Part 5 (SpecStore): the backend's workflow store                        *)
(* (src/backend/src/lib/database.ts) behind the producer and request       *)
(* routes.                                                                 *)
(* Part 6 (SpecRefresh): the frontend's waitForTransactionAndRefresh.      *)
(* Part 7 (SpecStats): the backend's GET /stats/:address handler.          *)
(***************************************************************************)
EXTENDS Integers, Sequences, FiniteSets, TLC

VARIABLES
    \* ---- the contract's event log (the environment of the backend)
    chain,        \* [CreditsIssued, Transfer, CreditRetired |-> Seq(raw log entry)], log order
    \* ---- backend module state (chain.ts:5-6)
    provider,     \* "null" | "set"
    contract,     \* "null" | "set"
    \* ---- one getCreditEvents call, as served by GET /ledger
    pc,           \* "idle" | "issued" | "transfer" | "retired"
    fromBlock,    \* the call's cursor argument
    fetched,      \* issuedEvents / transferEvents / retiredEvents of the call
    events,       \* the call's local `events` array
    failure,      \* what failed in the call and at which stage
    result,       \* "none" | "pending" | "ok" | "error": how the call ended
    ledger,       \* the list the call returned (<<>> when it threw)
    response,     \* what the /ledger route answered
    \* ---- frontend endpoint pool (chain.ts:21) and its callers
    directProvider, \* the cached handle (NoHandle for null)
    cpc,          \* caller -> "idle" | "probing" | "returned" | "thrown"
    urlIdx,       \* caller -> index into `urls` of the endpoint being probed
    probes,       \* caller -> the probes of its current call, in order: <<[url, ok]>>
    handle,       \* caller -> the handle its call returned (NoHandle when none)
    \* ---- one frontend read per caller: getOwnedTokens / isTokenRetired
    rop,          \* caller -> "none" | "getOwnedTokens" | "isTokenRetired"
    rpc,          \* caller -> "idle" | "select" | "read" | "backoff" | "done"
    attempt,      \* caller -> the loop variable `attempt` (0 outside the loop)
    tries,        \* caller -> how each try of the call ended: "select" | "read" | "ok"
    waits,        \* caller -> the setTimeout delays the call has awaited, in order
    got,          \* caller -> what the contract read of the call delivered
    ret,          \* caller -> [kind, value]: what the call returned or threw
    \* ---- frontend signer side (chain.ts:18-20) and one submission per caller
    browserProvider, \* "null" | "set"
    signer,       \* "null" | "set"
    signerContract,  \* "null" | "set": the module's `contract`
    sub,          \* caller -> [op, pc, calls, raised, ret] of its submission
    \* ---- one backend isTokenRetired call
    bpc,          \* "idle" | "reading"
    bret,         \* [kind, value]: what the call returned or threw
    \* ---- the producer page's holdings (Producer.tsx) and the token it shows
    retiredOnChain, \* whether the contract holds the page's token as retired
    credits,      \* the page's `credits` state: <<[tokenId, isRetired]>>
    \* ---- the backend's workflow store (database.ts:44-46)
    producers,    \* Map: lower-case address -> Producer
    creditRequests,   \* Map: id -> CreditRequest
    incomingRequests, \* Map: id -> IncomingRequest
    dbcall,       \* the latest call of a Database method and how it ended
    \* ---- waitForTransactionAndRefresh (chain.ts:170-173), one call per transaction
    now,          \* the browser's clock, in ms
    wtx,          \* transaction -> [pc, receipt, at, ret] of the call that waits for it
    timers,       \* the pending setTimeout timers: {[callback, delay, due]}
    invoked,      \* transaction -> the times its refreshCallback ran, in order
    \* ---- GET /stats/:address (part_000:267-305), one record per request
    stat          \* request -> [pc, dbStats, owned, tokenIds, reads, totalCredits, activeCredits, res]

ledgerVars == <<chain, provider, contract, pc, fromBlock, fetched, events,
                failure, result, ledger, response>>
poolVars == <<directProvider, cpc, urlIdx, probes, handle>>
readVars == <<rop, rpc, attempt, tries, waits, got, ret>>
submitVars == <<browserProvider, signer, signerContract, sub>>
backendReadVars == <<bpc, bret>>
pageVars == <<retiredOnChain, credits>>
storeVars == <<producers, creditRequests, incomingRequests, dbcall>>
refreshVars == <<now, wtx, timers, invoked>>
statsVars == <<stat>>
appVars == <<pageVars, storeVars, refreshVars, statsVars>>
callVars == <<readVars, submitVars, backendReadVars, appVars>>
vars == <<ledgerVars, poolVars, callVars>>

----------------------------------------------------------------------------
(* Bounds and input domains                                                *)

\* how many log entries the contract emits in a behaviour
MaxLog == 3

\* block numbers of the emitted entries (the spec's scenario uses 10 and 12)
Blocks == {10, 12}

\* ethers.ZeroAddress and some other address
ZeroAddress == "0x0"
Account == "0xA"

\* block.timestamp as returned by event.getBlock() for an entry of block b:
\* normally one value per block number; two entries of one block number can
\* carry different timestamps when they were mined in competing blocks.
\* The code never reads the timestamp of an entry it drops, so only the
\* entries it keeps are enumerated with both.
Timestamps(shape, b) ==
    IF shape.args /\ shape.from # ZeroAddress THEN {b * 100, b * 100 + 1} ELSE {b * 100}

\* cursors the route is called with (0 is the default of the parameter)
FromBlocks == {0, 12}

\* the concurrent callers of getDirectProvider (page loads, reads)
Callers == {"reader1", "reader2"}

\* a JsonRpcProvider object: the endpoint it is bound to and the call that
\* constructed it (chain.ts:47); url = 0 is null
NoHandle == [url |-> 0, madeBy |-> ""]
Handle(i, c) == [url |-> i, madeBy |-> c]

\* the callers that run reads (getOwnedTokens, isTokenRetired); the others
\* only call getDirectProvider
Readers == {"reader1"}

\* what a call has returned or thrown; kind = "none" while it has done neither
NoReturn == [kind |-> "none", value |-> "none"]
ReturnOf(v) == [kind |-> "returned", value |-> v]
Thrown(e) == [kind |-> "thrown", value |-> e]

\* the transactions the page waits for
Txs == {"tx1", "tx2"}

\* a transaction nobody waits for yet; receipt null is isNull = TRUE
NoReceipt == [isNull |-> TRUE, status |-> 0]
NoWait == [pc |-> "idle", receipt |-> NoReceipt, at |-> 0, ret |-> NoReturn]

\* the /stats requests in flight
StatsCalls == {"get1", "get2"}

\* what db.getStats returns before any credit request is stored
\* (database.ts:199-204), and a request nobody has made
NoStats == [totalCredits |-> 0, activeCredits |-> 0,
            pendingRequests |-> 0, approvedRequests |-> 0]
NoAnswer == [status |-> 0, success |-> FALSE, stats |-> NoStats]
NoStatsCall ==
    [pc |-> "idle", dbStats |-> NoStats, owned |-> "none", tokenIds |-> <<>>,
     reads |-> <<>>, totalCredits |-> 0, activeCredits |-> 0, res |-> NoAnswer]

\* a caller that has submitted nothing
NoSubmission == [op |-> "none", pc |-> "idle", calls |-> 0, raised |-> "none", ret |-> NoReturn]

Categories == <<"CreditsIssued", "Transfer", "CreditRetired">>
CategorySet == {Categories[i] : i \in 1..3}

\* The decoded arguments an entry of each category can carry.  args = FALSE is
\* an undecoded entry (`'args' in event && event.args` is falsy).
ArgShapes(cat) ==
    {[args |-> FALSE, from |-> "", to |-> ""]} \cup
    CASE cat = "CreditsIssued" -> {[args |-> TRUE, from |-> "", to |-> Account]}
      [] cat = "Transfer"      -> {[args |-> TRUE, from |-> ZeroAddress, to |-> Account],
                                   [args |-> TRUE, from |-> Account, to |-> Account],
                                   [args |-> TRUE, from |-> Account, to |-> ZeroAddress]}
      [] cat = "CreditRetired" -> {[args |-> TRUE, from |-> Account, to |-> ""]}

----------------------------------------------------------------------------
(* Sequence helpers                                                        *)

Range(s) == {s[i] : i \in DOMAIN s}

RECURSIVE SeqMax(_)
SeqMax(s) == IF s = <<>> THEN 0
             ELSE LET m == SeqMax(Tail(s)) IN IF Head(s) > m THEN Head(s) ELSE m

IsPrefix(s, t) == Len(s) <= Len(t) /\ SubSeq(t, 1, Len(s)) = s

AllRaw(f) == f["CreditsIssued"] \o f["Transfer"] \o f["CreditRetired"]

NoLogs == [c \in CategorySet |-> <<>>]

----------------------------------------------------------------------------
(* The contract's event log                                                *)

LogSize == Len(chain["CreditsIssued"]) + Len(chain["Transfer"]) + Len(chain["CreditRetired"])

HeadBlock == SeqMax([i \in 1..LogSize |-> AllRaw(chain)[i].blockNumber])

RawEntry(cat, shape, b, ts, tx) ==
    [cat |-> cat, args |-> shape.args, from |-> shape.from, to |-> shape.to,
     blockNumber |-> b, timestamp |-> ts, transactionHash |-> tx]

\* The contract emits one more entry.  The log is append-only and new entries
\* are mined at or above the block of every earlier one; each entry gets a
\* transaction hash of its own.  The log is written before the first request
\* is served; what an earlier request saw of it is a prefix of each category.
Emit(cat, shape, b, ts) ==
    /\ result = "none"
    /\ LogSize < MaxLog
    /\ b >= HeadBlock
    /\ chain' = [chain EXCEPT ![cat] = Append(@, RawEntry(cat, shape, b, ts, LogSize + 1))]
    /\ UNCHANGED <<provider, contract, pc, fromBlock, fetched, events, failure,
                   result, ledger, response, poolVars, callVars>>

EmitLog ==
    \E cat \in CategorySet : \E shape \in ArgShapes(cat) :
        \E b \in Blocks : \E ts \in Timestamps(shape, b) : Emit(cat, shape, b, ts)

\* contractInstance.queryFilter(filter, fromBlock): the entries of one
\* category from fromBlock to the head, in log order.
FilterFrom(log, fb) == SelectSeq(log, LAMBDA e : e.blockNumber >= fb)
QueryFilter(cat, fb) == FilterFrom(chain[cat], fb)

\* What an endpoint that repeats itself can answer instead: the same entries
\* with one of them delivered twice.
Redelivered(s) ==
    {SubSeq(s, 1, i) \o SubSeq(s, i, Len(s)) : i \in 1..Len(s)}

QueryResponses(cat, fb, flaky) ==
    {QueryFilter(cat, fb)} \cup
    (IF flaky THEN Redelivered(QueryFilter(cat, fb)) ELSE {})

----------------------------------------------------------------------------
(* getCreditEvents: normalisation                                          *)

\* chain.ts:70, 113: `'args' in event && event.args`
HasArgs(e) == e.args

\* chain.ts:92: `... && event.args[0] !== ethers.ZeroAddress`
KeepTransferAlsoDropsBurn(e) == e.args /\ e.from # ZeroAddress /\ e.to # ZeroAddress
KeepTransferKeepsMint(e) == e.args
KeepTransferTestsRecipient(e) == e.args /\ e.to # ZeroAddress
KeepTransfer(e) == e.args /\ e.from # ZeroAddress

Keep(e) ==
    IF e.cat = "Transfer" THEN KeepTransfer(e) ELSE HasArgs(e)

EventType(cat) ==
    CASE cat = "CreditsIssued" -> "issued"
      [] cat = "Transfer"      -> "transferred"
      [] cat = "CreditRetired" -> "retired"

\* chain.ts:72-81, 94-102, 115-122: the CreditEvent pushed for a kept entry.
\* Absent optional fields are "".  The numeric payload (amount, token ids) is
\* copied through unchanged by the code and is left out.
ToEvent(e) ==
    [type |-> EventType(e.cat), from |-> e.from, to |-> e.to,
     timestamp |-> e.timestamp, blockNumber |-> e.blockNumber,
     transactionHash |-> e.transactionHash]

\* one `for (const event of ...) { if (...) events.push(...) }` loop
RECURSIVE Normalize(_)
Normalize(raw) ==
    IF raw = <<>> THEN <<>>
    ELSE (IF Keep(Head(raw)) THEN <<ToEvent(Head(raw))>> ELSE <<>>) \o Normalize(Tail(raw))

----------------------------------------------------------------------------
(* getCreditEvents: the sort                                               *)

\* chain.ts:127-132, the comparator
CompareBlockOnly(a, b) == a.blockNumber - b.blockNumber
CompareDescending(a, b) ==
    IF a.blockNumber # b.blockNumber THEN b.blockNumber - a.blockNumber
    ELSE b.timestamp - a.timestamp
CompareThenHash(a, b) ==
    IF a.blockNumber # b.blockNumber THEN a.blockNumber - b.blockNumber
    ELSE IF a.timestamp # b.timestamp THEN a.timestamp - b.timestamp
    ELSE a.transactionHash - b.transactionHash
Compare(a, b) ==
    IF a.blockNumber # b.blockNumber THEN a.blockNumber - b.blockNumber
    ELSE a.timestamp - b.timestamp

\* Array.prototype.sort is a stable sort (ECMAScript 2019): the result is the
\* one permutation that is ordered by the comparator and keeps elements the
\* comparator calls equal in their input order.  Computed by insertion.
RECURSIVE InsertBeforeEquals(_, _)
InsertBeforeEquals(sorted, e) ==
    IF sorted = <<>> THEN <<e>>
    ELSE IF Compare(Head(sorted), e) >= 0 THEN <<e>> \o sorted
    ELSE <<Head(sorted)>> \o InsertBeforeEquals(Tail(sorted), e)

RECURSIVE InsertAfterEquals(_, _)
InsertAfterEquals(sorted, e) ==
    IF sorted = <<>> THEN <<e>>
    ELSE IF Compare(Head(sorted), e) > 0 THEN <<e>> \o sorted
    ELSE <<Head(sorted)>> \o InsertAfterEquals(Tail(sorted), e)

RECURSIVE StableSort(_)
StableSort(s) ==
    IF s = <<>> THEN <<>>
    ELSE InsertAfterEquals(StableSort(SubSeq(s, 1, Len(s) - 1)), s[Len(s)])

\* An unstable sort (selection sort by exchanges), as an engine without the
\* stability guarantee might run.
MinIndex(s) ==
    CHOOSE i \in DOMAIN s :
        /\ \A j \in DOMAIN s : Compare(s[i], s[j]) <= 0
        /\ \A j \in 1..(i - 1) : Compare(s[j], s[i]) > 0

RECURSIVE SelectionSort(_)
SelectionSort(s) ==
    IF Len(s) <= 1 THEN s
    ELSE LET m == MinIndex(s)
             swapped == [s EXCEPT ![1] = s[m], ![m] = s[1]]
         IN <<swapped[1]>> \o SelectionSort(Tail(swapped))

SortEvents(s) == StableSort(s)

\* chain.ts:58-135 as a function of the three query results: what
\* getCreditEvents returns when every query and lookup succeeds
MergedLedger(raw) == SortEvents(Normalize(AllRaw(raw)))

----------------------------------------------------------------------------
(* getCreditEvents and GET /ledger                                         *)

NoResponse == [status |-> 0, count |-> 0]
NoFailure == [what |-> "none", stage |-> "", attempt |-> 0]

\* chain.ts:58 `const events: CreditEvent[] = []`: a fresh array per call
NewEvents == <<>>

\* chain.ts:136-139 `catch (error) { ...; throw error; }`: the call ends with
\* the error and returns no list, whatever `events` holds by then.
CatchReturnsPartial(evts) == [result |-> "ok", ledger |-> SortEvents(evts)]
Catch(evts) == [result |-> "error", ledger |-> <<>>]

\* router.get('/ledger'): 200 with the events, or 500 when the call threw
LedgerRoute(r) ==
    IF r.result = "ok" THEN [status |-> 200, count |-> Len(r.ledger)]
    ELSE [status |-> 500, count |-> 0]

\* GET /ledger?fromBlock=fb -> getCreditEvents(fb), up to the end of
\* `await getContract()` (chain.ts:53).  getContract builds the contract once;
\* for that it calls getProvider, which builds the provider once and probes it
\* with getBlockNumber.  A failed probe throws out of getProvider, getContract
\* and getCreditEvents (the call is outside the try block), and leaves
\* `provider` assigned (chain.ts:12) and `contract` null.
StartCall(fb, probeOk) ==
    /\ pc = "idle"
    /\ probeOk \/ (contract = "null" /\ provider = "null")
    /\ fetched' = NoLogs
    /\ provider' = "set"
    /\ IF probeOk
       THEN /\ contract' = "set"
            /\ pc' = "issued"
            /\ fromBlock' = fb
            /\ events' = NewEvents
            /\ failure' = NoFailure
            /\ result' = "pending"
            /\ ledger' = <<>>
            /\ response' = NoResponse
       ELSE /\ contract' = contract
            /\ pc' = "idle"
            /\ fromBlock' = 0
            /\ events' = <<>>
            /\ failure' = [what |-> "getContract", stage |-> "start", attempt |-> 1]
            /\ result' = "error"
            /\ ledger' = <<>>
            /\ response' = LedgerRoute([result |-> "error", ledger |-> <<>>])
    /\ UNCHANGED <<chain, poolVars, callVars>>

\* The call leaves through the catch block; its locals are gone.  The try
\* block runs each query and each block lookup once (chain.ts:66, 71, 88, 93,
\* 109, 114): what failed was the first attempt of it.
Throw(what, evts) ==
    /\ pc' = "idle"
    /\ failure' = [what |-> what, stage |-> pc, attempt |-> 1]
    /\ fromBlock' = 0
    /\ events' = <<>>
    /\ fetched' = NoLogs
    /\ result' = Catch(evts).result
    /\ ledger' = Catch(evts).ledger
    /\ response' = LedgerRoute(Catch(evts))

\* chain.ts:126-135: sort in place and return.  `fetched`, `events` and
\* `fromBlock` keep the finished call's values until the next request.
SortAndReturn(evts) ==
    /\ pc' = "idle"
    /\ failure' = NoFailure
    /\ events' = SortEvents(evts)
    /\ result' = "ok"
    /\ ledger' = SortEvents(evts)
    /\ response' = LedgerRoute([result |-> "ok", ledger |-> SortEvents(evts)])

NextStage(stage) ==
    CASE stage = "issued" -> "transfer"
      [] stage = "transfer" -> "retired"
      [] stage = "retired" -> "sort"

StageCategory(stage) ==
    CASE stage = "issued" -> "CreditsIssued"
      [] stage = "transfer" -> "Transfer"
      [] stage = "retired" -> "CreditRetired"

\* One category: `await queryFilter(...)` and the loop over its result with
\* `await event.getBlock()` for every kept entry (chain.ts:65-83, 87-104,
\* 108-124).  The query can fail; so can the block lookup of the failAt-th
\* kept entry (failAt = 0: none fails), after the entries before it were
\* pushed.  After the last category the list is sorted and returned.
Fetch(stage, flaky) ==
    /\ pc = stage
    /\ \/ Throw("query", events)
       \/ \E raw \in QueryResponses(StageCategory(stage), fromBlock, flaky) :
            \E failAt \in 0..Len(Normalize(raw)) :
                 IF failAt > 0
                 THEN Throw("getBlock", events \o SubSeq(Normalize(raw), 1, failAt - 1))
                 ELSE /\ fetched' = [fetched EXCEPT ![StageCategory(stage)] = raw]
                      /\ fromBlock' = fromBlock
                      /\ IF NextStage(stage) = "sort"
                         THEN SortAndReturn(events \o Normalize(raw))
                         ELSE /\ pc' = NextStage(stage)
                              /\ events' = events \o Normalize(raw)
                              /\ UNCHANGED <<failure, result, ledger, response>>
    /\ UNCHANGED <<chain, provider, contract, poolVars, callVars>>

Request == \E fb \in FromBlocks : \E probeOk \in BOOLEAN : StartCall(fb, probeOk)
FetchIssued == Fetch("issued", FALSE)
FetchTransfers == Fetch("transfer", FALSE)
FetchRetired == Fetch("retired", FALSE)

FlakyFetchIssued == Fetch("issued", TRUE)
FlakyFetchTransfers == Fetch("transfer", TRUE)
FlakyFetchRetired == Fetch("retired", TRUE)

\* the backend module as loaded (chain.ts:5-6), no request served yet, and
\* the frontend module as loaded (frontend chain.ts:21), no call made yet
Init ==
    /\ chain = NoLogs
    /\ provider = "null"
    /\ contract = "null"
    /\ pc = "idle"
    /\ fromBlock = 0
    /\ fetched = NoLogs
    /\ events = <<>>
    /\ failure = NoFailure
    /\ result = "none"
    /\ ledger = <<>>
    /\ response = NoResponse
    /\ directProvider = NoHandle
    /\ cpc = [c \in Callers |-> "idle"]
    /\ urlIdx = [c \in Callers |-> 0]
    /\ probes = [c \in Callers |-> <<>>]
    /\ handle = [c \in Callers |-> NoHandle]
    /\ rop = [c \in Callers |-> "none"]
    /\ rpc = [c \in Callers |-> "idle"]
    /\ attempt = [c \in Callers |-> 0]
    /\ tries = [c \in Callers |-> <<>>]
    /\ waits = [c \in Callers |-> <<>>]
    /\ got = [c \in Callers |-> "none"]
    /\ ret = [c \in Callers |-> NoReturn]
    /\ browserProvider = "null"
    /\ signer = "null"
    /\ signerContract = "null"
    /\ sub = [c \in Callers |-> NoSubmission]
    /\ bpc = "idle"
    /\ bret = NoReturn
    /\ retiredOnChain = FALSE
    /\ credits = <<>>
    /\ producers = [k \in {} |-> "none"]
    /\ creditRequests = [k \in {} |-> "none"]
    /\ incomingRequests = [k \in {} |-> "none"]
    /\ dbcall = [op |-> "none", key |-> "", known |-> FALSE, was |-> "none",
                 kind |-> "none", value |-> "none"]
    /\ now = 0
    /\ wtx = [t \in Txs |-> NoWait]
    /\ timers = {}
    /\ invoked = [t \in Txs |-> <<>>]
    /\ stat = [r \in StatsCalls |-> NoStatsCall]

LedgerNext == EmitLog \/ Request \/ FetchIssued \/ FetchTransfers \/ FetchRetired

\* the backend against an endpoint that answers every query faithfully
SpecLedger == Init /\ [][LedgerNext]_vars

FlakyNext ==
    EmitLog \/ Request \/ FlakyFetchIssued \/ FlakyFetchTransfers \/ FlakyFetchRetired

\* the backend against an endpoint that may deliver a log entry twice
SpecFlaky == Init /\ [][FlakyNext]_vars

----------------------------------------------------------------------------
(* Properties of the merged ledger (SpecLedger)                            *)

\* a getCreditEvents call has returned its list
Returned == pc = "idle" /\ result = "ok"

\* the entries of the three query results that the ledger is to show
ToBeShown(e) == e.args /\ (e.cat = "Transfer" => e.from # ZeroAddress)

CountShown(raw) == Cardinality({i \in DOMAIN raw : ToBeShown(raw[i])})

TypeRank(type) ==
    CASE type = "issued" -> 1
      [] type = "transferred" -> 2
      [] type = "retired" -> 3

\* C1: the returned list is in non-decreasing (blockNumber, timestamp) order:
\* of two adjacent events the first has the lower block number, or the same
\* block number and a timestamp that is not higher.
C1_LedgerOrdered ==
    Returned =>
        \A i \in 1..(Len(ledger) - 1) :
            \/ ledger[i].blockNumber < ledger[i + 1].blockNumber
            \/ /\ ledger[i].blockNumber = ledger[i + 1].blockNumber
               /\ ledger[i].timestamp <= ledger[i + 1].timestamp

\* the sort had work to do on both keys: the retired entry is of the lowest
\* block, and two issued entries of one block were fetched in descending
\* timestamp order
C1_Witness ==
    /\ Returned
    /\ Len(ledger) = 3
    /\ Len(fetched["CreditsIssued"]) = 2
    /\ fetched["CreditsIssued"][1].blockNumber = fetched["CreditsIssued"][2].blockNumber
    /\ fetched["CreditsIssued"][1].timestamp > fetched["CreditsIssued"][2].timestamp
    /\ Len(fetched["CreditRetired"]) = 1
    /\ fetched["CreditRetired"][1].blockNumber < fetched["CreditsIssued"][1].blockNumber

\* C2: a raw Transfer entry whose `from` is the zero address has no
\* 'transferred' event in the returned list; the raw inputs Issued(block 10),
\* Transfer(from zero, block 10), Retired(block 12) give exactly two events,
\* 'issued' then 'retired'.
C2_Scenario ==
    /\ Len(fetched["CreditsIssued"]) = 1 /\ Len(fetched["Transfer"]) = 1
    /\ Len(fetched["CreditRetired"]) = 1
    /\ fetched["CreditsIssued"][1].args /\ fetched["CreditsIssued"][1].blockNumber = 10
    /\ fetched["Transfer"][1].args /\ fetched["Transfer"][1].from = ZeroAddress
    /\ fetched["Transfer"][1].blockNumber = 10
    /\ fetched["CreditRetired"][1].args /\ fetched["CreditRetired"][1].blockNumber = 12

C2_MintLegDropped ==
    Returned =>
        /\ \A k \in DOMAIN fetched["Transfer"] :
              (fetched["Transfer"][k].args /\ fetched["Transfer"][k].from = ZeroAddress) =>
                  ~\E i \in DOMAIN ledger :
                      /\ ledger[i].type = "transferred"
                      /\ ledger[i].transactionHash = fetched["Transfer"][k].transactionHash
        /\ C2_Scenario =>
              /\ Len(ledger) = 2
              /\ ledger[1].type = "issued"
              /\ ledger[2].type = "retired"

C2_Witness == Returned /\ C2_Scenario

\* C4: when all fetches succeed the returned list holds exactly one event for
\* every fetched CreditsIssued entry with args, every fetched Transfer entry
\* with args and a non-zero `from`, and every fetched CreditRetired entry with
\* args, and nothing else: its length is the sum of the three counts.
C4_NoLossNoDuplicate ==
    Returned =>
        /\ Len(ledger) = CountShown(fetched["CreditsIssued"]) + CountShown(fetched["Transfer"])
                           + CountShown(fetched["CreditRetired"])
        /\ \A c \in CategorySet : \A k \in DOMAIN fetched[c] :
              ToBeShown(fetched[c][k]) =>
                  Cardinality({i \in DOMAIN ledger :
                      /\ ledger[i].type = EventType(c)
                      /\ ledger[i].transactionHash = fetched[c][k].transactionHash
                      /\ ledger[i].blockNumber = fetched[c][k].blockNumber
                      /\ ledger[i].timestamp = fetched[c][k].timestamp
                      /\ ledger[i].from = fetched[c][k].from
                      /\ ledger[i].to = fetched[c][k].to}) = 1
        /\ \A i \in DOMAIN ledger :
              \E c \in CategorySet : \E k \in DOMAIN fetched[c] :
                  /\ ToBeShown(fetched[c][k])
                  /\ ledger[i].type = EventType(c)
                  /\ ledger[i].transactionHash = fetched[c][k].transactionHash

\* a burn transfer and an ordinary one are both shown while an entry without
\* args is not
C4_Witness ==
    /\ Returned
    /\ Len(ledger) = 2
    /\ Len(fetched["Transfer"]) = 2
    /\ fetched["Transfer"][1].to = ZeroAddress
    /\ fetched["Transfer"][2].to = Account /\ fetched["Transfer"][2].from = Account
    /\ Len(fetched["CreditsIssued"]) = 1
    /\ ~fetched["CreditsIssued"][1].args

\* the place of an event's log entry in the query result of its category
FetchPlace(ev) ==
    LET c == CHOOSE c \in CategorySet : EventType(c) = ev.type
    IN CHOOSE k \in DOMAIN fetched[c] :
           fetched[c][k].transactionHash = ev.transactionHash

\* C5: two events that tie on blockNumber and timestamp stand in fetch order:
\* 'issued' before 'transferred' before 'retired', and within one category in
\* the order the log query returned them; the transaction hash plays no part.
C5_TiesInFetchOrder ==
    Returned =>
        \A i, j \in DOMAIN ledger :
            (/\ i < j
             /\ ledger[i].blockNumber = ledger[j].blockNumber
             /\ ledger[i].timestamp = ledger[j].timestamp) =>
                \/ TypeRank(ledger[i].type) < TypeRank(ledger[j].type)
                \/ /\ ledger[i].type = ledger[j].type
                   /\ FetchPlace(ledger[i]) < FetchPlace(ledger[j])

\* three events tie, of two categories, and fetch order is not hash order
C5_Witness ==
    /\ Returned
    /\ Len(ledger) = 3
    /\ \A i \in 1..3 : /\ ledger[i].blockNumber = ledger[1].blockNumber
                       /\ ledger[i].timestamp = ledger[1].timestamp
    /\ ledger[1].type = "issued" /\ ledger[2].type = "issued" /\ ledger[3].type = "retired"
    /\ ledger[3].transactionHash < ledger[1].transactionHash

\* C3: getCreditEvents never returns a partial ledger: when getContract, one
\* of the three log queries or a block lookup fails, the call ends with the
\* error, returns no list and the route answers 500, however many events had
\* been collected; a 200 answer carries the list of a call in which nothing
\* failed.
C3_NoPartialLedger ==
    /\ failure.what # "none" =>
          /\ pc = "idle"
          /\ result = "error"
          /\ ledger = <<>>
          /\ response = [status |-> 500, count |-> 0]
    /\ response.status = 200 =>
          /\ Returned
          /\ failure.what = "none"
          /\ response.count = Len(ledger)

\* the block lookup of a retired entry failed after the issued and transfer
\* categories had been fetched and an event of each pushed (entries of block
\* 12 pass every cursor)
C3_Witness ==
    /\ failure.what = "getBlock"
    /\ failure.stage = "retired"
    /\ result = "error"
    /\ \E i \in DOMAIN chain["CreditsIssued"] :
          chain["CreditsIssued"][i].args /\ chain["CreditsIssued"][i].blockNumber = 12
    /\ \E i \in DOMAIN chain["Transfer"] :
          /\ chain["Transfer"][i].args /\ chain["Transfer"][i].from = Account
          /\ chain["Transfer"][i].blockNumber = 12

\* what an earlier call can have been given: a prefix of each query result
PrefixViews(f) ==
    {[c \in CategorySet |->
         SubSeq(f[c], 1, CASE c = Categories[1] -> i
                           [] c = Categories[2] -> t
                           [] c = Categories[3] -> r)] :
        i \in 0..Len(f[Categories[1]]),
        t \in 0..Len(f[Categories[2]]),
        r \in 0..Len(f[Categories[3]])}

Added(X, f) == [c \in CategorySet |-> SubSeq(f[c], Len(X[c]) + 1, Len(f[c]))]

BlocksOf(s) == [i \in DOMAIN s |-> s[i].blockNumber]

MaxBlockOf(X) == SeqMax(BlocksOf(AllRaw(X)))

\* C7 as claimed: for raw inputs X and added inputs Y whose block numbers are
\* all >= the highest block number of X, the list merged from X and Y begins
\* with the list merged from X.
C7_ExtensionFromSameBlock ==
    Returned =>
        \A X \in PrefixViews(fetched) :
            (\A y \in Range(AllRaw(Added(X, fetched))) : y.blockNumber >= MaxBlockOf(X)) =>
                IsPrefix(MergedLedger(X), ledger)

\* C7 as amended: for raw inputs X and added inputs Y whose block numbers are
\* all greater than the highest block number of X, the list merged from X and
\* Y begins with the list merged from X.
C7_ExtensionFromLaterBlocks ==
    Returned =>
        \A X \in PrefixViews(fetched) :
            (\A y \in Range(AllRaw(Added(X, fetched))) : y.blockNumber > MaxBlockOf(X)) =>
                IsPrefix(MergedLedger(X), ledger)

\* X holds two entries that the sort reorders, Y one shown entry of a later
\* block
C7_Witness ==
    /\ Returned
    /\ Len(ledger) = 3
    /\ ledger[1].type = "retired" /\ ledger[1].blockNumber = 10
    /\ ledger[2].type = "issued" /\ ledger[2].blockNumber = 10
    /\ ledger[3].blockNumber = 12

Place(list, ev) == CHOOSE i \in DOMAIN list : list[i] = ev

\* C8: for a call with cursor fromBlock1 on an earlier state of the
\* append-only log and a later call with cursor fromBlock2 >= fromBlock1, two
\* events found in both returned lists stand in the same order in both.
C8_NoReorderAcrossCalls ==
    Returned =>
        \A fb1 \in FromBlocks : fb1 <= fromBlock =>
            \A earlier \in PrefixViews(chain) :
                LET first == MergedLedger([c \in CategorySet |-> FilterFrom(earlier[c], fb1)])
                IN \A i, j \in DOMAIN first :
                      (/\ i < j
                       /\ first[i] \in Range(ledger)
                       /\ first[j] \in Range(ledger)) =>
                          Place(ledger, first[i]) < Place(ledger, first[j])

\* the later call has a higher cursor and returns two tied events; the call
\* from block 0 also returns an event of a lower block, fetched after them
C8_Witness ==
    /\ Returned
    /\ fromBlock = 12
    /\ Len(ledger) = 2
    /\ ledger[1].type = "issued" /\ ledger[2].type = "issued"
    /\ ledger[1].timestamp = ledger[2].timestamp
    /\ Len(chain["Transfer"]) = 1
    /\ chain["Transfer"][1].blockNumber = 10
    /\ chain["Transfer"][1].from = Account

\* C9: the returned list holds at most one event per transaction hash and
\* event category (every transaction of the model emits one entry per
\* category, at positional index 0), also when a log query delivers an entry
\* more than once.
C9_OneEventPerLogEntry ==
    Returned =>
        \A i, j \in DOMAIN ledger :
            (/\ ledger[i].transactionHash = ledger[j].transactionHash
             /\ ledger[i].type = ledger[j].type) => i = j

----------------------------------------------------------------------------
(* Frontend endpoint pool: getDirectProvider (SpecPool)                    *)

\* frontend chain.ts:11 (the default of RPC_URL) and 24-29
RPC_URL == "https://ethereum-sepolia.publicnode.com"
FALLBACK_RPC_ENDPOINTS ==
    <<"https://rpc.sepolia.org",
      "https://sepolia.infura.io/v3/9aa3d95b3bc440fa88ea12eaa4456161",
      "https://ethereum-sepolia.publicnode.com",
      "https://sepolia.drpc.org">>

\* chain.ts:42 `const urls = [RPC_URL, ...FALLBACK_RPC_ENDPOINTS]`
Urls == <<RPC_URL>> \o FALLBACK_RPC_ENDPOINTS

\* the `for (const url of urls)` iteration order
NextUrlIndexSkipsOne(i) == i + 2
NextUrlIndex(i) == i + 1

\* getDirectProvider is entered.  With a cached handle it returns it at once
\* (chain.ts:41, 65); without, it constructs a provider for the first url and
\* awaits its getBlockNumber (chain.ts:44-50).
EnterGetDirectProvider(c) ==
    /\ cpc[c] = "idle"
    /\ probes' = [probes EXCEPT ![c] = <<>>]
    /\ IF directProvider # NoHandle
       THEN /\ cpc' = [cpc EXCEPT ![c] = "returned"]
            /\ handle' = [handle EXCEPT ![c] = directProvider]
            /\ UNCHANGED urlIdx
       ELSE /\ cpc' = [cpc EXCEPT ![c] = "probing"]
            /\ urlIdx' = [urlIdx EXCEPT ![c] = NextUrlIndex(0)]
            /\ UNCHANGED handle
    /\ UNCHANGED <<directProvider, ledgerVars, callVars>>

\* The awaited probe settles.  Success: the tested provider becomes the
\* cached handle, the loop breaks and the cached handle is returned
\* (chain.ts:52-54, 65).  Failure: the loop continues with the next url
\* (chain.ts:55-58); after the last url the function throws unless a handle
\* has been cached meanwhile (chain.ts:61-65).
ProbeSettles(c, ok) ==
    /\ cpc[c] = "probing"
    /\ probes' = [probes EXCEPT ![c] = Append(@, [url |-> urlIdx[c], ok |-> ok])]
    /\ IF ok
       THEN /\ directProvider' = Handle(urlIdx[c], c)
            /\ cpc' = [cpc EXCEPT ![c] = "returned"]
            /\ handle' = [handle EXCEPT ![c] = Handle(urlIdx[c], c)]
            /\ UNCHANGED urlIdx
       ELSE IF NextUrlIndex(urlIdx[c]) <= Len(Urls)
       THEN /\ urlIdx' = [urlIdx EXCEPT ![c] = NextUrlIndex(urlIdx[c])]
            /\ UNCHANGED <<directProvider, cpc, handle>>
       ELSE /\ cpc' = [cpc EXCEPT ![c] = IF directProvider # NoHandle
                                        THEN "returned" ELSE "thrown"]
            /\ handle' = [handle EXCEPT ![c] = directProvider]
            /\ UNCHANGED <<directProvider, urlIdx>>
    /\ UNCHANGED <<ledgerVars, callVars>>

\* the caller is done with what the call gave it and may call again
Leave(c) ==
    /\ cpc[c] \in {"returned", "thrown"}
    /\ cpc' = [cpc EXCEPT ![c] = "idle"]
    /\ handle' = [handle EXCEPT ![c] = NoHandle]
    /\ urlIdx' = [urlIdx EXCEPT ![c] = 0]
    /\ probes' = [probes EXCEPT ![c] = <<>>]
    /\ UNCHANGED <<directProvider, ledgerVars, callVars>>

Enter == \E c \in Callers : EnterGetDirectProvider(c)
Probe == \E c \in Callers : \E ok \in BOOLEAN : ProbeSettles(c, ok)
Done == \E c \in Callers : Leave(c)

PoolNext == Enter \/ Probe \/ Done

SpecPool == Init /\ [][PoolNext]_vars

\* C10: a getDirectProvider call that finds no cached handle probes the urls
\* in list order, the primary first, each after the one before it failed; it
\* returns the provider of the first url whose probe succeeds and probes none
\* after it.  With probes [bad, bad, good] it returns the third endpoint
\* after exactly three probes.
C10_ProbesInPriorityOrder ==
    \A c \in Callers :
        /\ \A i \in DOMAIN probes[c] :
              /\ probes[c][i].url = i
              /\ Urls[probes[c][i].url] = (IF i = 1 THEN RPC_URL ELSE FALLBACK_RPC_ENDPOINTS[i - 1])
              /\ i < Len(probes[c]) => ~probes[c][i].ok
        /\ (probes[c] # <<>> /\ probes[c][Len(probes[c])].ok) =>
              /\ cpc[c] = "returned"
              /\ handle[c].url = Len(probes[c])
        /\ (cpc[c] = "probing") => urlIdx[c] = Len(probes[c]) + 1
        /\ (Len(probes[c]) >= 3 /\ probes[c][3].ok) =>
              /\ Len(probes[c]) = 3
              /\ handle[c] = Handle(3, c)

\* probes [bad, bad, good]: the third endpoint is returned
C10_Witness ==
    \E c \in Callers :
        /\ cpc[c] = "returned"
        /\ Len(probes[c]) = 3
        /\ ~probes[c][1].ok /\ ~probes[c][2].ok /\ probes[c][3].ok
        /\ handle[c].url = 3

----------------------------------------------------------------------------
(* Failed selection                                                        *)

\* C11: when every probe of a selection fails, the selection fails and leaves
\* no connection handle behind, so that the next selection probes again.
\* Frontend: a getDirectProvider call that threw returned no handle, after a
\* failed probe of every url.  Backend: after getProvider threw out of a
\* request, the module holds no provider.
C11_FailedSelectionCachesNothing ==
    /\ \A c \in Callers :
          cpc[c] = "thrown" =>
              /\ handle[c] = NoHandle
              /\ Len(probes[c]) = Len(Urls)
              /\ \A i \in DOMAIN probes[c] : ~probes[c][i].ok
    /\ (pc = "idle" /\ failure.what = "getContract") => provider = "null"

----------------------------------------------------------------------------
(* Frontend reads: getOwnedTokens and isTokenRetired (SpecReader)          *)

ReadOps == {"getOwnedTokens", "isTokenRetired"}

\* what contract.tokensOfOwner(address) can deliver: a list of bigint ids
TokensOfOwner == {<<>>, <<[big |-> 1]>>, <<[big |-> 1], [big |-> 2]>>}

\* chain.ts:124 `tokens.map((token: bigint) => Number(token))`
TokenArrayDropsAll(tokens) == <<>>
TokenArray(tokens) == [i \in DOMAIN tokens |-> tokens[i].big]

\* chain.ts:120 `attempt <= 3`
LoopContinues(a) == a <= 3

\* chain.ts:129 `if (attempt === 3) return []`
IsLastAttemptOffByOne(a) == a = 4
IsLastAttempt(a) == a = 3

\* chain.ts:130 `setTimeout(resolve, 1000 * attempt)`
BackoffDelayQuadratic(a) == 1000 * a * a
BackoffDelay(a) == 1000 * a

\* chain.ts:129 `return []` and chain.ts:141 `return false`
GiveUpRethrows == Thrown("error")
GiveUp == ReturnOf(<<>>)
RetiredDefaultIsRetired == ReturnOf(TRUE)
RetiredDefault == ReturnOf(FALSE)

\* the token whose holdings entry the page shows
PageToken == 1

\* what contract.isRetired(tokenId) delivers for the page's token: the
\* contract's own flag at the time of the read
IsRetiredReads == {retiredOnChain}

\* getOwnedTokens(address) or isTokenRetired(tokenId) is called: up to the
\* call of getDirectReadOnlyContract in the first try block (chain.ts:120-122,
\* 137-138).  isTokenRetired has no loop and no attempt counter.
CallRead(c, op) ==
    /\ rpc[c] \in {"idle", "done"}
    /\ rop' = [rop EXCEPT ![c] = op]
    /\ rpc' = [rpc EXCEPT ![c] = "select"]
    /\ attempt' = [attempt EXCEPT ![c] = IF op = "getOwnedTokens" THEN 1 ELSE 0]
    /\ tries' = [tries EXCEPT ![c] = <<>>]
    /\ waits' = [waits EXCEPT ![c] = <<>>]
    /\ got' = [got EXCEPT ![c] = "none"]
    /\ ret' = [ret EXCEPT ![c] = NoReturn]
    /\ handle' = [handle EXCEPT ![c] = NoHandle]
    /\ UNCHANGED <<directProvider, cpc, urlIdx, probes>>
    /\ UNCHANGED <<ledgerVars, submitVars, backendReadVars, appVars>>

\* getDirectReadOnlyContract awaits getDirectProvider (chain.ts:88)
Select(c) ==
    /\ rpc[c] = "select"
    /\ EnterGetDirectProvider(c)

\* getDirectProvider returned: the contract is built on the returned handle
\* and the read is sent through it (chain.ts:89, 123, 139)
Selected(c) ==
    /\ rpc[c] = "select"
    /\ cpc[c] = "returned"
    /\ rpc' = [rpc EXCEPT ![c] = "read"]
    /\ cpc' = [cpc EXCEPT ![c] = "idle"]
    /\ urlIdx' = [urlIdx EXCEPT ![c] = 0]
    /\ probes' = [probes EXCEPT ![c] = <<>>]
    /\ UNCHANGED <<directProvider, handle>>
    /\ UNCHANGED <<rop, attempt, tries, waits, got, ret>>
    /\ UNCHANGED <<ledgerVars, submitVars, backendReadVars, appVars>>

\* a catch block that tries again at once and keeps no count
CaughtRetriesForever(c, why) ==
    /\ rpc' = [rpc EXCEPT ![c] = "select"]
    /\ UNCHANGED <<rop, attempt, tries, waits, got, ret>>

\* The catch block of the read (chain.ts:127-131, 140-142): isTokenRetired
\* returns false; getOwnedTokens returns [] on its last attempt and otherwise
\* awaits the backoff timer.  Neither touches directProvider.
Caught(c, why) ==
    /\ tries' = [tries EXCEPT ![c] = Append(@, why)]
    /\ IF rop[c] = "isTokenRetired"
       THEN /\ rpc' = [rpc EXCEPT ![c] = "done"]
            /\ ret' = [ret EXCEPT ![c] = RetiredDefault]
            /\ UNCHANGED waits
       ELSE IF IsLastAttempt(attempt[c])
       THEN /\ rpc' = [rpc EXCEPT ![c] = "done"]
            /\ ret' = [ret EXCEPT ![c] = GiveUp]
            /\ UNCHANGED waits
       ELSE /\ rpc' = [rpc EXCEPT ![c] = "backoff"]
            /\ waits' = [waits EXCEPT ![c] = Append(@, BackoffDelay(attempt[c]))]
            /\ UNCHANGED ret
    /\ UNCHANGED <<rop, attempt, got>>

\* getDirectProvider threw 'All RPC endpoints failed' (chain.ts:62) into the
\* try block of the read
SelectionThrows(c) ==
    /\ rpc[c] = "select"
    /\ cpc[c] = "thrown"
    /\ cpc' = [cpc EXCEPT ![c] = "idle"]
    /\ urlIdx' = [urlIdx EXCEPT ![c] = 0]
    /\ probes' = [probes EXCEPT ![c] = <<>>]
    /\ Caught(c, "select")
    /\ UNCHANGED <<directProvider, handle>>
    /\ UNCHANGED <<ledgerVars, submitVars, backendReadVars, appVars>>

\* contract.tokensOfOwner / contract.isRetired rejects (chain.ts:123, 139)
ReadFails(c) ==
    /\ rpc[c] = "read"
    /\ Caught(c, "read")
    /\ UNCHANGED <<poolVars, ledgerVars, submitVars, backendReadVars, appVars>>

\* contract.tokensOfOwner / contract.isRetired delivers v: the call returns
\* (chain.ts:124-126, 139)
ReadSucceeds(c, v) ==
    /\ rpc[c] = "read"
    /\ tries' = [tries EXCEPT ![c] = Append(@, "ok")]
    /\ got' = [got EXCEPT ![c] = v]
    /\ rpc' = [rpc EXCEPT ![c] = "done"]
    /\ ret' = [ret EXCEPT ![c] = IF rop[c] = "getOwnedTokens"
                                 THEN ReturnOf(TokenArray(v)) ELSE ReturnOf(v)]
    /\ UNCHANGED <<rop, attempt, waits>>
    /\ UNCHANGED <<poolVars, ledgerVars, submitVars, backendReadVars, appVars>>

\* the backoff timer fires: `attempt++`, then the loop condition
\* (chain.ts:120, 130, 133)
BackoffElapses(c) ==
    /\ rpc[c] = "backoff"
    /\ attempt' = [attempt EXCEPT ![c] = @ + 1]
    /\ IF LoopContinues(attempt[c] + 1)
       THEN /\ rpc' = [rpc EXCEPT ![c] = "select"]
            /\ UNCHANGED ret
       ELSE /\ rpc' = [rpc EXCEPT ![c] = "done"]
            /\ ret' = [ret EXCEPT ![c] = ReturnOf(<<>>)]
    /\ UNCHANGED <<rop, tries, waits, got>>
    /\ UNCHANGED <<poolVars, ledgerVars, submitVars, backendReadVars, appVars>>

\* Somebody retires the page's token (retireCredit, chain.ts:114-116): the
\* contract's flag is set and stays set (one retirement per credit unit).
RetireOnChain ==
    /\ ~retiredOnChain
    /\ retiredOnChain' = TRUE
    /\ UNCHANGED <<credits, storeVars, refreshVars, statsVars>>
    /\ UNCHANGED <<ledgerVars, poolVars, readVars, submitVars, backendReadVars>>

\* loadCredits after its reads (Producer.tsx:111-122): an empty tokenIds list
\* gives an empty holdings snapshot; the map callback of the page's token
\* pairs the token id with what isTokenRetired returned, and setCredits
\* stores the result.
SetCredits(c) ==
    /\ rpc[c] = "done"
    /\ \/ /\ rop[c] = "getOwnedTokens"
          /\ ret[c].value = <<>>
          /\ credits' = <<>>
       \/ /\ rop[c] = "isTokenRetired"
          /\ credits' = <<[tokenId |-> PageToken, isRetired |-> ret[c].value]>>
    /\ credits' # credits
    /\ UNCHANGED <<retiredOnChain, storeVars, refreshVars, statsVars>>
    /\ UNCHANGED <<ledgerVars, poolVars, readVars, submitVars, backendReadVars>>

Call == \E c \in Readers : \E op \in ReadOps : CallRead(c, op)
SelectEndpoint == \E c \in Readers : Select(c)
EndpointSelected == \E c \in Readers : Selected(c)
NoEndpoint == \E c \in Readers : SelectionThrows(c)
ReadRejects == \E c \in Readers : ReadFails(c)
ReadDelivers ==
    \E c \in Readers :
        \E v \in (IF rop[c] = "getOwnedTokens" THEN TokensOfOwner ELSE IsRetiredReads) :
            ReadSucceeds(c, v)
Backoff == \E c \in Readers : BackoffElapses(c)
Snapshot == \E c \in Readers : SetCredits(c)
\* the other callers of getDirectProvider (hasRole, getTokenOwner, ...)
OtherEnter == \E c \in Callers \ Readers : EnterGetDirectProvider(c)
OtherDone == \E c \in Callers \ Readers : Leave(c)

ReaderNext ==
    \/ Call \/ SelectEndpoint \/ EndpointSelected \/ NoEndpoint
    \/ ReadRejects \/ ReadDelivers \/ Backoff
    \/ RetireOnChain \/ Snapshot
    \/ Probe \/ OtherEnter \/ OtherDone

SpecReader == Init /\ [][ReaderNext]_vars

\* how the latest try of c's read ended ("" before the first has ended)
LastTry(c) == IF tries[c] = <<>> THEN "" ELSE tries[c][Len(tries[c])]

\* C12: the cached handle is reused only until a read through it fails.
\* Once a contract read sent through a handle has rejected, that handle is
\* no longer the cached one, so the next attempt or call selects afresh.
C12_FailedReadInvalidatesHandle ==
    \A c \in Readers :
        (rpc[c] \in {"backoff", "done"} /\ LastTry(c) = "read") =>
            directProvider # handle[c]

\* a getOwnedTokens call of c that has returned after three failed tries
Exhausted(c) ==
    /\ rop[c] = "getOwnedTokens"
    /\ rpc[c] = "done"
    /\ Len(tries[c]) = 3
    /\ LastTry(c) # "ok"

\* a getOwnedTokens call of c whose tries 1 and 2 failed and try 3 succeeded
ThirdTimeLucky(c) ==
    /\ rop[c] = "getOwnedTokens"
    /\ rpc[c] = "done"
    /\ Len(tries[c]) = 3
    /\ tries[c][1] # "ok" /\ tries[c][2] # "ok" /\ tries[c][3] = "ok"

\* C13: getOwnedTokens makes at most 3 attempts.  The attempt counter is 1,
\* 2 or 3; the attempts that have ended are those below the counter and
\* possibly the current one; a success is the last try of its call and ends
\* the call.
C13_AtMostThreeAttempts ==
    \A c \in Readers :
        rop[c] = "getOwnedTokens" =>
            /\ attempt[c] \in {1, 2, 3}
            /\ Len(tries[c]) \in {attempt[c] - 1, attempt[c]}
            /\ \A i \in DOMAIN tries[c] :
                  tries[c][i] = "ok" => (i = Len(tries[c]) /\ rpc[c] = "done")
            /\ rpc[c] \in {"select", "read"} => Len(tries[c]) = attempt[c] - 1

\* three attempts were made and all failed: the call is over
C13_Witness ==
    \E c \in Readers : Exhausted(c) /\ attempt[c] = 3 /\ LastTry(c) = "read"

\* C14: a getOwnedTokens call that fails on attempts 1 and 2 and succeeds on
\* attempt 3 returns the tokens attempt 3 read (converted to numbers), not
\* the default, and has waited exactly twice.
C14_ThirdAttemptResultReturned ==
    \A c \in Readers :
        ThirdTimeLucky(c) =>
            /\ ret[c].kind = "returned"
            /\ Len(ret[c].value) = Len(got[c])
            /\ \A i \in DOMAIN got[c] : ret[c].value[i] = got[c][i].big
            /\ Len(waits[c]) = 2

\* attempts 1 and 2 fail, attempt 3 reads two tokens
C14_Witness ==
    \E c \in Readers :
        /\ ThirdTimeLucky(c)
        /\ got[c] = <<[big |-> 1], [big |-> 2]>>
        /\ ret[c].value = <<1, 2>>

\* C15: backoff is linear.  The n-th wait of a getOwnedTokens call lasts
\* n * 1000 ms and follows failed attempt n (n = 1, 2); no wait follows a
\* failed attempt 3 or a success; an exhausted call has waited 1000 and then
\* 2000 ms.
C15_LinearBackoff ==
    \A c \in Readers :
        rop[c] = "getOwnedTokens" =>
            /\ \A n \in DOMAIN waits[c] : waits[c][n] = n * 1000
            /\ rpc[c] = "backoff" =>
                  (attempt[c] \in {1, 2} /\ Len(waits[c]) = attempt[c])
            /\ rpc[c] # "backoff" => Len(waits[c]) = attempt[c] - 1
            /\ Exhausted(c) =>
                  (waits[c] = <<1000, 2000>> /\ waits[c][1] + waits[c][2] = 3000)

\* a call exhausted by three rejected reads
C15_Witness ==
    \E c \in Readers : Exhausted(c) /\ tries[c] = <<"read", "read", "read">>

\* C16: getOwnedTokens never throws.  It ends by returning, and when its
\* last try failed (no endpoint selected, or the read rejected) it returns
\* the empty list.
C16_OwnedTokensNeverThrows ==
    \A c \in Readers :
        rop[c] = "getOwnedTokens" =>
            /\ ret[c].kind # "thrown"
            /\ rpc[c] = "done" => ret[c].kind = "returned"
            /\ (rpc[c] = "done" /\ LastTry(c) # "ok") => ret[c] = ReturnOf(<<>>)

\* every endpoint failed its probe on each of the three attempts
C16_Witness ==
    \E c \in Readers :
        /\ Exhausted(c)
        /\ tries[c] = <<"select", "select", "select">>
        /\ ret[c] = ReturnOf(<<>>)

----------------------------------------------------------------------------
(* Frontend submissions and the backend's isTokenRetired (SpecCalls)       *)

SubmitOps == {"batchIssueCredits", "transferCredit", "retireCredit"}

\* the contract method each submission calls (chain.ts:107, 111, 115)
Method(op) ==
    CASE op = "batchIssueCredits" -> "batchIssue"
      [] op = "transferCredit" -> "transferFrom"
      [] op = "retireCredit" -> "retire"

\* the errors a submission can meet
MetaMaskNotFound == "MetaMask not found. Please install MetaMask."
AccountsRejected == "eth_requestAccounts rejected"
SignerRejected == "getSigner rejected"
CallRejected == "contract call rejected"

\* chain.ts:106-116 have no try/catch: what is raised inside is what the
\* caller's await throws
PropagateAsChainError(err) == "Unknown blockchain error"
Propagate(err) == err

\* c's submission ends by throwing err
Raise(c, err) ==
    sub' = [sub EXCEPT ![c] = [@ EXCEPT !.pc = "done", !.raised = err,
                                        !.ret = Thrown(Propagate(err))]]

\* batchIssueCredits / transferCredit / retireCredit is called: getContract
\* (chain.ts:77-84) returns the cached contract, or builds it from the cached
\* signer, or enters getSigner and getProvider (chain.ts:31-37, 68-71), which
\* throws without window.ethereum and otherwise awaits eth_requestAccounts.
\* With a contract in hand the method is called (chain.ts:107, 111, 115).
CallSubmit(c, op, metamask) ==
    /\ sub[c].pc \in {"idle", "done"}
    /\ IF signerContract = "set" \/ signer = "set"
       THEN /\ sub' = [sub EXCEPT ![c] = [op |-> op, pc |-> "call", calls |-> 1,
                                          raised |-> "none", ret |-> NoReturn]]
            /\ signerContract' = "set"
            /\ UNCHANGED browserProvider
       ELSE IF browserProvider = "null" /\ ~metamask
       THEN /\ sub' = [sub EXCEPT ![c] = [op |-> op, pc |-> "done", calls |-> 0,
                                          raised |-> MetaMaskNotFound,
                                          ret |-> Thrown(Propagate(MetaMaskNotFound))]]
            /\ UNCHANGED <<browserProvider, signerContract>>
       ELSE /\ sub' = [sub EXCEPT ![c] = [op |-> op, pc |-> "accounts", calls |-> 0,
                                          raised |-> "none", ret |-> NoReturn]]
            /\ browserProvider' = "set"
            /\ UNCHANGED signerContract
    /\ UNCHANGED <<signer, readVars, backendReadVars, ledgerVars, poolVars, appVars>>

\* providerInstance.send('eth_requestAccounts', []) settles (chain.ts:71);
\* on success providerInstance.getSigner() is awaited (chain.ts:72)
AccountsSettle(c, ok) ==
    /\ sub[c].pc = "accounts"
    /\ IF ok THEN sub' = [sub EXCEPT ![c].pc = "getSigner"]
             ELSE Raise(c, AccountsRejected)
    /\ UNCHANGED <<browserProvider, signer, signerContract>>
    /\ UNCHANGED <<readVars, backendReadVars, ledgerVars, poolVars, appVars>>

\* providerInstance.getSigner() settles (chain.ts:72-74); on success the
\* signer and the contract are cached and the method is called
\* (chain.ts:81-83, 107)
SignerSettles(c, ok) ==
    /\ sub[c].pc = "getSigner"
    /\ IF ok
       THEN /\ sub' = [sub EXCEPT ![c] = [@ EXCEPT !.pc = "call", !.calls = @ + 1]]
            /\ signer' = "set"
            /\ signerContract' = "set"
       ELSE /\ Raise(c, SignerRejected)
            /\ UNCHANGED <<signer, signerContract>>
    /\ UNCHANGED browserProvider
    /\ UNCHANGED <<readVars, backendReadVars, ledgerVars, poolVars, appVars>>

\* the contract method settles: the transaction response is returned, or the
\* rejection leaves the function (chain.ts:107, 111, 115)
CallSettles(c, ok) ==
    /\ sub[c].pc = "call"
    /\ IF ok
       THEN sub' = [sub EXCEPT ![c] = [@ EXCEPT !.pc = "done",
                        !.ret = ReturnOf([method |-> Method(sub[c].op)])]]
       ELSE Raise(c, CallRejected)
    /\ UNCHANGED <<browserProvider, signer, signerContract>>
    /\ UNCHANGED <<readVars, backendReadVars, ledgerVars, poolVars, appVars>>

\* Backend isTokenRetired(tokenId) up to the end of `await getContract()`
\* (backend chain.ts:156): as in StartCall, a failed probe throws out of
\* getProvider, getContract and isTokenRetired and leaves `provider` assigned.
BackendIsTokenRetired(probeOk) ==
    /\ bpc = "idle"
    /\ pc = "idle"
    /\ probeOk \/ (contract = "null" /\ provider = "null")
    /\ provider' = "set"
    /\ IF probeOk
       THEN /\ contract' = "set"
            /\ bpc' = "reading"
            /\ bret' = NoReturn
       ELSE /\ contract' = contract
            /\ bpc' = "idle"
            /\ bret' = Thrown("Failed to connect to blockchain")
    /\ UNCHANGED <<chain, pc, fromBlock, fetched, events, failure, result,
                   ledger, response>>
    /\ UNCHANGED <<readVars, submitVars, poolVars, appVars>>

\* `return await contractInstance.isRetired(tokenId)` (backend chain.ts:161)
\* settles: the answer is returned, or the rejection leaves the function
BackendReadSettles(ok, v) ==
    /\ bpc = "reading"
    /\ bpc' = "idle"
    /\ bret' = IF ok THEN ReturnOf(v) ELSE Thrown("isRetired rejected")
    /\ UNCHANGED <<ledgerVars, readVars, submitVars, poolVars, appVars>>

Submit ==
    \E c \in Callers : \E op \in SubmitOps : \E metamask \in BOOLEAN :
        CallSubmit(c, op, metamask)
Accounts == \E c \in Callers : \E ok \in BOOLEAN : AccountsSettle(c, ok)
SignerReady == \E c \in Callers : \E ok \in BOOLEAN : SignerSettles(c, ok)
MethodSettles == \E c \in Callers : \E ok \in BOOLEAN : CallSettles(c, ok)
BackendRetiredCall == \E probeOk \in BOOLEAN : BackendIsTokenRetired(probeOk)
BackendRetiredRead ==
    \/ \E v \in BOOLEAN : BackendReadSettles(TRUE, v)
    \/ BackendReadSettles(FALSE, FALSE)

CallsNext ==
    \/ Submit \/ Accounts \/ SignerReady \/ MethodSettles
    \/ BackendRetiredCall \/ BackendRetiredRead

SpecCalls == Init /\ [][CallsNext]_vars

\* C17: isTokenRetired never throws: when the endpoint selection or the
\* contract's isRetired read fails, it returns false.  Backend: no call ends
\* by throwing.  Frontend: no call ends by throwing, and a call whose try
\* failed returns false.
C17_RetiredReadNeverThrows ==
    /\ bret.kind # "thrown"
    /\ \A c \in Readers :
          rop[c] = "isTokenRetired" =>
              /\ ret[c].kind # "thrown"
              /\ (rpc[c] = "done" /\ LastTry(c) # "ok") => ret[c] = ReturnOf(FALSE)

\* C18: isTokenRetired is retried like the ownership read: it returns the
\* default false only after three failed tries, so one failed try alone
\* never produces the default.
C18_RetiredReadRetried ==
    \A c \in Readers :
        (rop[c] = "isTokenRetired" /\ rpc[c] = "done" /\ LastTry(c) # "ok") =>
            Len(tries[c]) = 3

\* C19: a submission is tried once and its failure is propagated verbatim.
\* The contract method is called at most once; whatever was raised while
\* obtaining the signer or by the method ends the submission and is the very
\* error the caller gets; a submission that returns hands back the response
\* of its one method call.
C19_SubmissionsPropagateOnce ==
    \A c \in Callers :
        /\ sub[c].calls \in {0, 1}
        /\ sub[c].raised # "none" =>
              /\ sub[c].pc = "done"
              /\ sub[c].ret = [kind |-> "thrown", value |-> sub[c].raised]
              /\ sub[c].raised \in {MetaMaskNotFound, AccountsRejected, SignerRejected}
                    => sub[c].calls = 0
        /\ sub[c].pc = "done" => sub[c].ret.kind \in {"returned", "thrown"}
        /\ sub[c].ret.kind = "thrown" => sub[c].raised # "none"
        /\ sub[c].ret.kind = "returned" =>
              /\ sub[c].raised = "none"
              /\ sub[c].calls = 1
              /\ sub[c].ret.value = [method |-> Method(sub[c].op)]

\* one submission failed in the contract call, the other while obtaining
\* the signer
C19_Witness ==
    \E c, d \in Callers :
        /\ sub[c].op = "retireCredit"
        /\ sub[c].raised = CallRejected
        /\ sub[c].ret = Thrown(CallRejected)
        /\ sub[d].raised = AccountsRejected
        /\ sub[d].ret = Thrown(AccountsRejected)

\* C20: each category query of getCreditEvents is retried: the fetch fails
\* because of a query only when the third attempt of that query has failed,
\* so a single failed query attempt does not fail the call.
C20_QueryFailsOnlyWhenExhausted ==
    (pc = "idle" /\ result = "error" /\ failure.what = "query") =>
        failure.attempt = 3

----------------------------------------------------------------------------
(* Concurrent callers of the endpoint pool                                 *)

\* the callers whose getDirectProvider call is iterating over the urls
Probing == {c \in Callers : cpc[c] = "probing"}

\* C21: no concurrent reprobing.  At most one pass over the endpoint list is
\* in progress at any time: no two callers are probing at once.
C21_OneSelectionPassAtATime ==
    Cardinality(Probing) <= 1

\* c's latest read went through handle[c] and was rejected
ReadFailedThrough(c) ==
    /\ rpc[c] \in {"backoff", "done"}
    /\ LastTry(c) = "read"

\* in this step getDirectProvider returns a handle to d
HandedOut(d) ==
    /\ cpc[d] # "returned"
    /\ cpc'[d] = "returned"

\* C22: invalidation on failure is atomic for concurrent readers.  Once a
\* read through a handle has failed for one caller, the pool hands that
\* handle to no caller any more.
C22_FailedHandleNotHandedOut ==
    [][\A c \in Readers : \A d \in Callers :
          (ReadFailedThrough(c) /\ HandedOut(d)) => handle'[d] # handle[c]]_vars

\* C23: at most one connection handle is active at a time.  All callers that
\* hold a handle returned by getDirectProvider hold the same one, also when
\* their calls overlapped while nothing was cached.
C23_OneActiveHandle ==
    \A c, d \in Callers :
        (cpc[c] = "returned" /\ cpc[d] = "returned") => handle[c] = handle[d]

----------------------------------------------------------------------------
(* Malformed entries, burns and the reference ordering                     *)

\* the fetched entries without decoded args, which the loops pass over
MalformedCount ==
    Cardinality({<<c, k>> \in CategorySet \X (1..MaxLog) :
                    k \in DOMAIN fetched[c] /\ ~HasArgs(fetched[c][k])})

\* C24: a malformed log entry is skipped and counted without aborting the
\* fetch.  A call that met malformed entries returns every well-formed entry
\* that is to be shown, and what it answers carries the number of entries it
\* skipped.
C24_MalformedSkippedAndCounted ==
    (Returned /\ MalformedCount > 0) =>
        /\ Len(ledger) = CountShown(fetched["CreditsIssued"]) + CountShown(fetched["Transfer"])
                           + CountShown(fetched["CreditRetired"])
        /\ "skipped" \in DOMAIN response
        /\ response.skipped = MalformedCount

----------------------------------------------------------------------------
(* Probes behind the handles                                               *)

\* the previous backend request failed in getProvider's probe
ProbeFailedRequest == pc = "idle" /\ result = "error" /\ failure.what = "getContract"

\* C25: failures are scoped to one request.  The request that follows a
\* request failed by the endpoint probe starts clean: when it goes on to use
\* a provider, it found none cached and therefore probed the one it uses.
C25_NextRequestProbesAgain ==
    [][(ProbeFailedRequest /\ pc' # "idle") => provider = "null"]_vars

\* in this step c's probe of the url it is at succeeds
ProbedOk(c) ==
    /\ cpc[c] = "probing"
    /\ Len(probes'[c]) = Len(probes[c]) + 1
    /\ probes'[c][Len(probes'[c])] = [url |-> urlIdx[c], ok |-> TRUE]

\* C26: every handle the pool returns has passed a liveness probe.  Backend:
\* a step in which getContract receives a provider from getProvider and
\* builds the contract on it starts with no provider cached, so that
\* getProvider probed it.  Frontend: the cached handle changes only to a
\* provider whose maker has just probed it successfully, and what
\* getDirectProvider returns is the cached handle, never null.
C26_ReturnedHandlesWereProbed ==
    [][/\ (contract = "null" /\ contract' = "set") => provider = "null"
       /\ directProvider' # directProvider =>
             \E c \in Callers :
                 ProbedOk(c) /\ directProvider' = Handle(urlIdx[c], c)
       /\ \A c \in Callers :
             HandedOut(c) =>
                 (handle'[c] # NoHandle /\ handle'[c] = directProvider')]_vars

\* C27: within one selection cycle a failed probe is followed at once by
\* the probe of the next endpoint, and no URL is probed twice in the cycle.
C27_EachUrlProbedOncePerCycle ==
    \A c \in Callers :
        /\ \A i, j \in DOMAIN probes[c] :
              Urls[probes[c][i].url] = Urls[probes[c][j].url] => i = j
        /\ (cpc[c] = "probing" /\ probes[c] # <<>>) =>
              urlIdx[c] = probes[c][Len(probes[c])].url + 1

----------------------------------------------------------------------------
(* Termination of the retry loop (SpecReaderFair)                          *)

\* the next step of c's read: a pending probe, contract read or timer
\* settles, or the code between two awaits runs
ReaderStep(c) ==
    \/ Select(c)
    \/ \E ok \in BOOLEAN : ProbeSettles(c, ok)
    \/ Selected(c)
    \/ SelectionThrows(c)
    \/ ReadFails(c)
    \/ \E v \in (IF rop[c] = "getOwnedTokens" THEN TokensOfOwner ELSE IsRetiredReads) :
          ReadSucceeds(c, v)
    \/ BackoffElapses(c)

\* every probe, read and backoff timer of a reader eventually completes
ReaderFairness == \A c \in Readers : WF_vars(ReaderStep(c))

SpecReaderFair == Init /\ [][ReaderNext]_vars /\ ReaderFairness

\* c's getOwnedTokens call is under way
OwnedTokensRunning(c) == rop[c] = "getOwnedTokens" /\ rpc[c] # "done"

\* c's getOwnedTokens call has returned: SUCCEEDED with the tokens read, or
\* EXHAUSTED with the empty list, within 3 attempts and 2 waits
OwnedTokensEnded(c) ==
    /\ rop[c] = "getOwnedTokens"
    /\ rpc[c] = "done"
    /\ ret[c].kind = "returned"
    /\ Len(tries[c]) <= 3
    /\ Len(waits[c]) <= 2
    /\ \/ LastTry(c) = "ok"
       \/ (Len(tries[c]) = 3 /\ ret[c].value = <<>>)

\* C28: the retry loop of getOwnedTokens terminates.  When every probe, read
\* and timer eventually completes, a call under way eventually returns, with
\* the token list or after three failed attempts with the empty list, having
\* made at most 3 attempts and 2 waits; a call that has returned takes no
\* further step (its state changes only when the caller calls again).
C28_OwnedTokensTerminates ==
    /\ \A c \in Readers : OwnedTokensRunning(c) ~> OwnedTokensEnded(c)
    /\ [][\A c \in Readers :
            OwnedTokensEnded(c) =>
                \/ <<rop[c], rpc[c], attempt[c], tries[c], waits[c], got[c], ret[c]>>'
                     = <<rop[c], rpc[c], attempt[c], tries[c], waits[c], got[c], ret[c]>>
                \/ (rpc'[c] = "select" /\ tries'[c] = <<>> /\ ret'[c] = NoReturn)]_vars

\* a call that failed once, waited once and then read one token
C28_Witness ==
    \E c \in Readers :
        /\ OwnedTokensEnded(c)
        /\ tries[c] = <<"read", "ok">>
        /\ waits[c] = <<1000>>
        /\ ret[c] = ReturnOf(<<1>>)

----------------------------------------------------------------------------
(* Burns and the reference ordering                                        *)

\* a Transfer entry sending a token from an account to the zero address
IsBurn(e) == e.cat = "Transfer" /\ e.args /\ e.from # ZeroAddress /\ e.to = ZeroAddress

\* C29: a burn is not excluded.  Every fetched Transfer entry from a
\* non-zero address to the zero address is in the returned list as a
\* 'transferred' event with those addresses, and the only decoded Transfer
\* entries left out are those from the zero address.
C29_BurnTransferKept ==
    Returned =>
        /\ \A k \in DOMAIN fetched["Transfer"] :
              IsBurn(fetched["Transfer"][k]) =>
                  \E i \in DOMAIN ledger :
                      /\ ledger[i].type = "transferred"
                      /\ ledger[i].transactionHash = fetched["Transfer"][k].transactionHash
                      /\ ledger[i].from = fetched["Transfer"][k].from
                      /\ ledger[i].to = ZeroAddress
        /\ \A k \in DOMAIN fetched["Transfer"] :
              (fetched["Transfer"][k].args /\ fetched["Transfer"][k].from = ZeroAddress) =>
                  \A i \in DOMAIN ledger :
                      ledger[i].type = "transferred" =>
                          ledger[i].transactionHash # fetched["Transfer"][k].transactionHash

\* a mint leg and a burn were fetched: only the burn is in the list
C29_Witness ==
    /\ Returned
    /\ Len(fetched["Transfer"]) = 2
    /\ fetched["Transfer"][1].args /\ fetched["Transfer"][1].from = ZeroAddress
    /\ IsBurn(fetched["Transfer"][2])
    /\ Len(ledger) = 1
    /\ ledger[1].type = "transferred"
    /\ ledger[1].to = ZeroAddress

\* all fetched entries of one block carry the same block timestamp
SameTimestampPerBlock ==
    LET all == AllRaw(fetched)
    IN \A i, j \in DOMAIN all :
           all[i].blockNumber = all[j].blockNumber => all[i].timestamp = all[j].timestamp

\* the entries of s of block b, in the order of s
OfBlock(s, b) ==
    LET InBlock(e) == e.blockNumber = b IN SelectSeq(s, InBlock)

\* s rearranged block by block, lowest block first, each block's entries in
\* the order of s
RECURSIVE ByBlock(_, _)
ByBlock(s, bs) ==
    IF bs = {} THEN <<>>
    ELSE LET b == CHOOSE x \in bs : \A y \in bs : x <= y
         IN OfBlock(s, b) \o ByBlock(s, bs \ {b})

\* the reference ordering: issued entries ++ non-mint transfer entries ++
\* retired entries of the call, stably ordered by block number alone
ReferenceOrder ==
    ByBlock(SelectSeq(AllRaw(fetched), ToBeShown), Blocks)

\* C30: when all events of one block carry the same timestamp, the list
\* getCreditEvents returns is the reference ordering, event for event: the
\* timestamp key changes nothing.
C30_TimestampKeyChangesNothing ==
    (Returned /\ SameTimestampPerBlock) =>
        LET ref == ReferenceOrder
        IN /\ Len(ledger) = Len(ref)
           /\ \A i \in DOMAIN ledger :
                 /\ ledger[i].transactionHash = ref[i].transactionHash
                 /\ ledger[i].type = EventType(ref[i].cat)
                 /\ ledger[i].blockNumber = ref[i].blockNumber
                 /\ ledger[i].timestamp = ref[i].timestamp

\* fetched as issued@12, transferred@10, retired@10 and returned as
\* transferred, retired, issued: the sort moved the later block behind and
\* left the two events of block 10 in fetch order
C30_Witness ==
    /\ Returned
    /\ SameTimestampPerBlock
    /\ Len(ledger) = 3
    /\ ledger[1].type = "transferred" /\ ledger[1].blockNumber = 10
    /\ ledger[2].type = "retired" /\ ledger[2].blockNumber = 10
    /\ ledger[3].type = "issued" /\ ledger[3].blockNumber = 12

----------------------------------------------------------------------------
(* The degraded retirement status (SpecReader)                             *)

\* a frontend isTokenRetired call of c that has returned true
ReturnedRetired(c) ==
    rop[c] = "isTokenRetired" /\ ret[c].kind = "returned" /\ ret[c].value

\* C31: the degraded retirement status errs only towards 'not retired'.
\* The frontend isTokenRetired returns true only if its isRetired read
\* completed and delivered true, and then the token is retired on chain; a
\* call whose try failed returns false; and the holdings snapshot never
\* shows a token as retired that is not retired on chain.
C31_ErrsOnlyTowardsNotRetired ==
    /\ \A c \in Readers :
          /\ ReturnedRetired(c) =>
                (LastTry(c) = "ok" /\ got[c] = TRUE /\ retiredOnChain)
          /\ (rop[c] = "isTokenRetired" /\ rpc[c] = "done" /\ LastTry(c) # "ok") =>
                ret[c] = ReturnOf(FALSE)
    /\ \A i \in DOMAIN credits : credits[i].isRetired => retiredOnChain

\* the token is retired on chain, the isRetired read was rejected, and the
\* snapshot shows the token as active
C31_Witness ==
    \E c \in Readers :
        /\ retiredOnChain
        /\ rop[c] = "isTokenRetired" /\ rpc[c] = "done" /\ LastTry(c) = "read"
        /\ credits = <<[tokenId |-> 1, isRetired |-> FALSE]>>

----------------------------------------------------------------------------
(* The workflow store (SpecStore): database.ts                             *)

\* addresses the routes are called with: two spellings of one address and
\* another address
Addresses == {"0xAB", "0xab", "0xCD"}

\* String.prototype.toLowerCase on those addresses
ToLowerCase(a) ==
    CASE a = "0xAB" -> "0xab"
      [] a = "0xCD" -> "0xcd"
      [] OTHER -> a

\* the ids createCreditRequest / createIncomingRequest generate
\* (`req_${Date.now()}_${random}`, `inc_...`), in the order of generation
RequestIds == <<"req_1", "req_2">>
IncomingIds == <<"inc_1">>

\* the admins who decide, and the optional `reason` of a rejection
Admins == {"State Admin"}
Reasons == {"undefined", "duplicate"}

\* Map.prototype.has / get / set
Has(map, k) == k \in DOMAIN map
Set(map, k, v) == [x \in DOMAIN map \cup {k} |-> IF x = k THEN v ELSE map[x]]

\* the status a new request starts with (database.ts:90, 144)
InitialStatusApproved == "approved"
InitialStatus == "pending"

\* the isVerified flag of a record addProducer stores (database.ts:52):
\* `was` is the flag of the record stored under the key before
KeepsVerified(was) == was = "verified"
NewIsVerified(was) == FALSE

\* the outcome of a Database method: the record it returned or the message
\* of the Error it threw, with the key it was called with and what the map
\* held under that key before
Called(op, key, known, was, kind, value) ==
    [op |-> op, key |-> key, known |-> known, was |-> was,
     kind |-> kind, value |-> value]

\* `throw new Error(...)` for a key the map does not hold
\* (database.ts:72-74, 109-111, 124-126, 160-162, 174-176)
NotFoundLeavesHalfDone(op, key, msg) ==
    /\ dbcall' = Called(op, key, FALSE, "none", "thrown", msg)
    /\ producers' = [k \in {} |-> "none"]
    /\ UNCHANGED <<creditRequests, incomingRequests>>
NotFound(op, key, msg) ==
    /\ dbcall' = Called(op, key, FALSE, "none", "thrown", msg)
    /\ UNCHANGED <<producers, creditRequests, incomingRequests>>

VerifiedFlag(p) == IF p.isVerified THEN "verified" ELSE "unverified"

\* database.ts:49-56
AddProducer(a) ==
    LET key == ToLowerCase(a)
        known == Has(producers, key)
        was == IF known THEN VerifiedFlag(producers[key]) ELSE "none"
        newProducer == [address |-> a, isVerified |-> NewIsVerified(was),
                        verifiedAt |-> "undefined", verifiedBy |-> "undefined"]
    IN  /\ producers' = Set(producers, key, newProducer)
        /\ dbcall' = Called("addProducer", a, known, was, "returned", newProducer)
        /\ UNCHANGED <<creditRequests, incomingRequests>>

\* database.ts:70-82
VerifyProducer(a, verifiedBy) ==
    LET key == ToLowerCase(a) IN
    IF ~Has(producers, key)
    THEN NotFound("verifyProducer", a, "Producer not found")
    ELSE LET producer == [producers[key] EXCEPT !.isVerified = TRUE,
                                                  !.verifiedAt = "date",
                                                  !.verifiedBy = verifiedBy]
         IN  /\ producers' = Set(producers, key, producer)
             /\ dbcall' = Called("verifyProducer", a, TRUE,
                                 VerifiedFlag(producers[key]), "returned", producer)
             /\ UNCHANGED <<creditRequests, incomingRequests>>

\* database.ts:58-60; null is the record NoProducer
NoProducer == [address |-> "null", isVerified |-> FALSE,
               verifiedAt |-> "undefined", verifiedBy |-> "undefined"]
GetProducer(a) ==
    LET key == ToLowerCase(a) IN
    IF Has(producers, key) THEN producers[key] ELSE NoProducer

\* the id generated for the next request: ids are not reused
NextId(ids, map) == ids[Cardinality(DOMAIN map) + 1]

\* database.ts:85-97
CreateCreditRequest(producerAddress) ==
    /\ Cardinality(DOMAIN creditRequests) < Len(RequestIds)
    /\ LET id == NextId(RequestIds, creditRequests)
           newRequest == [id |-> id, producerAddress |-> producerAddress,
                          status |-> InitialStatus,
                          approvedAt |-> "undefined", approvedBy |-> "undefined",
                          rejectedAt |-> "undefined", rejectedBy |-> "undefined",
                          reason |-> "undefined"]
       IN  /\ creditRequests' = Set(creditRequests, id, newRequest)
           /\ dbcall' = Called("createCreditRequest", id, FALSE, "none",
                               "returned", newRequest)
    /\ UNCHANGED <<producers, incomingRequests>>

\* database.ts:107-120
ApproveCreditRequest(requestId, approvedBy) ==
    IF ~Has(creditRequests, requestId)
    THEN NotFound("approveCreditRequest", requestId, "Credit request not found")
    ELSE LET request == [creditRequests[requestId] EXCEPT
                             !.status = "approved", !.approvedAt = "date",
                             !.approvedBy = approvedBy]
         IN  /\ creditRequests' = Set(creditRequests, requestId, request)
             /\ dbcall' = Called("approveCreditRequest", requestId, TRUE,
                                 creditRequests[requestId].status, "returned", request)
             /\ UNCHANGED <<producers, incomingRequests>>

\* database.ts:122-136
RejectCreditRequest(requestId, rejectedBy, reason) ==
    IF ~Has(creditRequests, requestId)
    THEN NotFound("rejectCreditRequest", requestId, "Credit request not found")
    ELSE LET request == [creditRequests[requestId] EXCEPT
                             !.status = "rejected", !.rejectedAt = "date",
                             !.rejectedBy = rejectedBy, !.reason = reason]
         IN  /\ creditRequests' = Set(creditRequests, requestId, request)
             /\ dbcall' = Called("rejectCreditRequest", requestId, TRUE,
                                 creditRequests[requestId].status, "returned", request)
             /\ UNCHANGED <<producers, incomingRequests>>

\* database.ts:139-151
CreateIncomingRequest(fromAddress, toAddress) ==
    /\ Cardinality(DOMAIN incomingRequests) < Len(IncomingIds)
    /\ LET id == NextId(IncomingIds, incomingRequests)
           newRequest == [id |-> id, fromAddress |-> fromAddress,
                          toAddress |-> toAddress, status |-> InitialStatus,
                          acceptedAt |-> "undefined", rejectedAt |-> "undefined",
                          reason |-> "undefined"]
       IN  /\ incomingRequests' = Set(incomingRequests, id, newRequest)
           /\ dbcall' = Called("createIncomingRequest", id, FALSE, "none",
                               "returned", newRequest)
    /\ UNCHANGED <<producers, creditRequests>>

\* database.ts:158-170
AcceptIncomingRequest(requestId) ==
    IF ~Has(incomingRequests, requestId)
    THEN NotFound("acceptIncomingRequest", requestId, "Incoming request not found")
    ELSE LET request == [incomingRequests[requestId] EXCEPT
                             !.status = "accepted", !.acceptedAt = "date"]
         IN  /\ incomingRequests' = Set(incomingRequests, requestId, request)
             /\ dbcall' = Called("acceptIncomingRequest", requestId, TRUE,
                                 incomingRequests[requestId].status, "returned", request)
             /\ UNCHANGED <<producers, creditRequests>>

\* database.ts:172-185
RejectIncomingRequest(requestId, reason) ==
    IF ~Has(incomingRequests, requestId)
    THEN NotFound("rejectIncomingRequest", requestId, "Incoming request not found")
    ELSE LET request == [incomingRequests[requestId] EXCEPT
                             !.status = "rejected", !.rejectedAt = "date",
                             !.reason = reason]
         IN  /\ incomingRequests' = Set(incomingRequests, requestId, request)
             /\ dbcall' = Called("rejectIncomingRequest", requestId, TRUE,
                                 incomingRequests[requestId].status, "returned", request)
             /\ UNCHANGED <<producers, creditRequests>>

\* what a Database method leaves alone
StoreFrame ==
    UNCHANGED <<ledgerVars, poolVars, readVars, submitVars, backendReadVars,
                pageVars, refreshVars, statsVars>>

\* the routes that reach the store (part_000:137-264)
PostProducer == \E a \in Addresses : AddProducer(a) /\ StoreFrame
PostVerify ==
    \E a \in Addresses : \E by \in Admins : VerifyProducer(a, by) /\ StoreFrame
PostCreditRequest == \E a \in {"0xAB"} : CreateCreditRequest(a) /\ StoreFrame
PostApprove ==
    \E id \in Range(RequestIds) : \E by \in Admins :
        ApproveCreditRequest(id, by) /\ StoreFrame
PostReject ==
    \E id \in Range(RequestIds) : \E by \in Admins : \E reason \in Reasons :
        RejectCreditRequest(id, by, reason) /\ StoreFrame
PostIncomingRequest ==
    \E a \in {"0xAB"} : CreateIncomingRequest("0xCD", a) /\ StoreFrame
PostAccept == \E id \in Range(IncomingIds) : AcceptIncomingRequest(id) /\ StoreFrame
PostRejectIncoming ==
    \E id \in Range(IncomingIds) : \E reason \in Reasons :
        RejectIncomingRequest(id, reason) /\ StoreFrame

StoreNext ==
    \/ PostProducer \/ PostVerify
    \/ PostCreditRequest \/ PostApprove \/ PostReject
    \/ PostIncomingRequest \/ PostAccept \/ PostRejectIncoming

SpecStore == Init /\ [][StoreNext]_vars

\* the latest Database call was op, on a key the map held
Decided(op) == dbcall.op = op /\ dbcall.known

\* C32: createCreditRequest and createIncomingRequest store and return the
\* new record with status 'pending'; approveCreditRequest,
\* rejectCreditRequest, acceptIncomingRequest and rejectIncomingRequest on a
\* stored request return it and leave it with their own status, whatever
\* its status was before (pending, or already decided either way).
C32_DecidedStatusNotFinal ==
    /\ dbcall.op = "createCreditRequest" =>
          /\ dbcall.kind = "returned" /\ dbcall.value.status = "pending"
          /\ creditRequests[dbcall.key].status = "pending"
    /\ dbcall.op = "createIncomingRequest" =>
          /\ dbcall.kind = "returned" /\ dbcall.value.status = "pending"
          /\ incomingRequests[dbcall.key].status = "pending"
    /\ Decided("approveCreditRequest") =>
          /\ dbcall.kind = "returned" /\ dbcall.value.status = "approved"
          /\ creditRequests[dbcall.key].status = "approved"
    /\ Decided("rejectCreditRequest") =>
          /\ dbcall.kind = "returned" /\ dbcall.value.status = "rejected"
          /\ creditRequests[dbcall.key].status = "rejected"
    /\ Decided("acceptIncomingRequest") =>
          /\ dbcall.kind = "returned" /\ dbcall.value.status = "accepted"
          /\ incomingRequests[dbcall.key].status = "accepted"
    /\ Decided("rejectIncomingRequest") =>
          /\ dbcall.kind = "returned" /\ dbcall.value.status = "rejected"
          /\ incomingRequests[dbcall.key].status = "rejected"

\* req_2 was rejected and has just been approved; req_1 was approved earlier
\* and is now rejected
C32_Witness ==
    /\ Decided("approveCreditRequest") /\ dbcall.key = "req_2"
    /\ dbcall.was = "rejected"
    /\ creditRequests["req_2"].status = "approved"
    /\ creditRequests["req_2"].rejectedAt = "date"
    /\ creditRequests["req_1"].status = "rejected"
    /\ creditRequests["req_1"].approvedAt = "date"

\* the methods that look a record up before changing it, and their errors
LookupOps ==
    {"verifyProducer", "approveCreditRequest", "rejectCreditRequest",
     "acceptIncomingRequest", "rejectIncomingRequest"}
NotFoundMessage(op) ==
    CASE op = "verifyProducer" -> "Producer not found"
      [] op \in {"approveCreditRequest", "rejectCreditRequest"} -> "Credit request not found"
      [] op \in {"acceptIncomingRequest", "rejectIncomingRequest"} -> "Incoming request not found"

\* two spellings of one address
SameAddress(a, b) ==
    \/ a = b
    \/ {a, b} = {"0xAB", "0xab"}

\* the call that ends in dbcall' names a key its map does not hold now
UnknownKey ==
    /\ dbcall'.op \in LookupOps
    /\ dbcall'.op = "verifyProducer" =>
          \A k \in DOMAIN producers : ~SameAddress(producers[k].address, dbcall'.key)
    /\ dbcall'.op \in {"approveCreditRequest", "rejectCreditRequest"} =>
          dbcall'.key \notin DOMAIN creditRequests
    /\ dbcall'.op \in {"acceptIncomingRequest", "rejectIncomingRequest"} =>
          dbcall'.key \notin DOMAIN incomingRequests

\* C33: verifyProducer, approveCreditRequest, rejectCreditRequest,
\* acceptIncomingRequest and rejectIncomingRequest called with an unknown key
\* throw their 'not found' error, and the step leaves the three maps as
\* they were.
C33_UnknownKeyFailsAndChangesNothing ==
    [][UnknownKey =>
          /\ dbcall'.kind = "thrown"
          /\ dbcall'.value = NotFoundMessage(dbcall'.op)
          /\ UNCHANGED <<producers, creditRequests, incomingRequests>>]_vars

\* approving req_2, which was never created, has thrown; a producer and
\* req_1 are stored
C33_Witness ==
    /\ dbcall.op = "approveCreditRequest" /\ dbcall.key = "req_2"
    /\ dbcall.kind = "thrown" /\ dbcall.value = "Credit request not found"
    /\ DOMAIN creditRequests = {"req_1"}
    /\ DOMAIN producers # {}

\* C35: producers are keyed case-insensitively by address: at most one
\* record is stored per address, whatever the spellings used, and a lookup
\* under any spelling finds it.  addProducer always stores isVerified =
\* false: after addProducer(a) the record of a's address is the new one,
\* unverified, also when a verified record of that address was stored.
C35_AddProducerResetsVerification ==
    /\ \A j, k \in DOMAIN producers :
          SameAddress(producers[j].address, producers[k].address) => j = k
    /\ \A k \in DOMAIN producers : \A b \in Addresses :
          SameAddress(producers[k].address, b) => GetProducer(b) = producers[k]
    /\ dbcall.op = "addProducer" =>
          /\ dbcall.kind = "returned"
          /\ \A b \in Addresses :
                SameAddress(b, dbcall.key) =>
                    GetProducer(b) = [address |-> dbcall.key, isVerified |-> FALSE,
                                      verifiedAt |-> "undefined",
                                      verifiedBy |-> "undefined"]

\* a verified record of the address was stored, and addProducer("0xAB") has
\* replaced it by an unverified one
C35_Witness ==
    /\ dbcall.op = "addProducer" /\ dbcall.key = "0xAB"
    /\ dbcall.known /\ dbcall.was = "verified"
    /\ ~GetProducer("0xab").isVerified
    /\ GetProducer("0xab").address = "0xAB"

----------------------------------------------------------------------------
(* waitForTransactionAndRefresh (SpecRefresh): frontend chain.ts:170-173   *)

\* how far the clock runs, in seconds
MaxClock == 5

\* the delay of the refresh timer (chain.ts:172)
RefreshDelay == 2000

\* what tx.wait() can resolve to: null, or a receipt with a status
Receipts ==
    {NoReceipt} \cup {[isNull |-> FALSE, status |-> st] : st \in {0, 1, 2}}

\* chain.ts:172 `receipt?.status === 1`
StatusNotZero(r) == ~r.isNull /\ r.status # 0
StatusIsOne(r) == ~r.isNull /\ r.status = 1

WaitRejected == "transaction wait rejected"

RefreshFrame ==
    UNCHANGED <<ledgerVars, poolVars, readVars, submitVars, backendReadVars,
                pageVars, storeVars, statsVars>>

\* waitForTransactionAndRefresh(tx, refreshCallback) is called and awaits
\* tx.wait() (chain.ts:171)
CallWait(tx) ==
    /\ wtx[tx].pc = "idle"
    /\ wtx' = [wtx EXCEPT ![tx].pc = "waiting"]
    /\ UNCHANGED <<now, timers, invoked>>
    /\ RefreshFrame

\* tx.wait() resolves with receipt r: the timer is set when the status is 1,
\* and the function returns (chain.ts:171-173)
WaitResolves(tx, r) ==
    /\ wtx[tx].pc = "waiting"
    /\ wtx' = [wtx EXCEPT ![tx] = [pc |-> "done", receipt |-> r, at |-> now,
                                    ret |-> ReturnOf("undefined")]]
    /\ timers' = IF StatusIsOne(r)
                  THEN timers \cup {[callback |-> tx, delay |-> RefreshDelay,
                                     due |-> now + RefreshDelay]}
                  ELSE timers
    /\ UNCHANGED <<now, invoked>>
    /\ RefreshFrame

\* tx.wait() rejects: the rejection leaves the function (chain.ts:171)
WaitRejects(tx) ==
    /\ wtx[tx].pc = "waiting"
    /\ wtx' = [wtx EXCEPT ![tx] = [pc |-> "done", receipt |-> NoReceipt, at |-> now,
                                    ret |-> Thrown(Propagate(WaitRejected))]]
    /\ UNCHANGED <<now, timers, invoked>>
    /\ RefreshFrame

\* time passes
Tick ==
    /\ now + 1000 <= MaxClock * 1000
    /\ now' = now + 1000
    /\ UNCHANGED <<wtx, timers, invoked>>
    /\ RefreshFrame

\* the event loop runs a timer that is due (never before its delay has
\* passed, possibly later): refreshCallback is invoked
TimerFires(t) ==
    /\ t \in timers
    /\ now >= t.due
    /\ timers' = timers \ {t}
    /\ invoked' = [invoked EXCEPT ![t.callback] = Append(@, now)]
    /\ UNCHANGED <<now, wtx>>
    /\ RefreshFrame

WaitForTransaction == \E tx \in Txs : CallWait(tx)
ReceiptArrives == \E tx \in Txs : \E r \in Receipts : WaitResolves(tx, r)
WaitFails == \E tx \in Txs : WaitRejects(tx)
Refresh == \E t \in timers : TimerFires(t)

RefreshNext == WaitForTransaction \/ ReceiptArrives \/ WaitFails \/ Tick \/ Refresh

SpecRefresh == Init /\ [][RefreshNext]_vars

\* the pending timers that will run tx's refreshCallback
TimersOf(tx) == {t \in timers : t.callback = tx}

\* C34: waitForTransactionAndRefresh schedules refreshCallback exactly once,
\* with a delay of 2000 ms from the arrival of the receipt, if and only if
\* the receipt is present and has status 1.  For each call: the timers set
\* plus the invocations made number one when tx.wait() resolved with a
\* status-1 receipt and zero otherwise (null receipt, other status, rejected
\* or pending wait); the timer is due 2000 ms after the receipt arrived and
\* the callback does not run earlier; a rejected wait leaves the function as
\* the same error.
C34_RefreshOnceAfterSuccess ==
    \A tx \in Txs :
        LET w == wtx[tx]
            success == /\ w.pc = "done" /\ w.ret.kind = "returned"
                       /\ ~w.receipt.isNull /\ w.receipt.status = 1
        IN  /\ Cardinality(TimersOf(tx)) + Len(invoked[tx]) = IF success THEN 1 ELSE 0
            /\ \A t \in TimersOf(tx) : t.delay = 2000 /\ t.due = w.at + 2000
            /\ \A i \in DOMAIN invoked[tx] : invoked[tx][i] >= w.at + 2000
            /\ w.pc = "done" => w.ret \in {ReturnOf("undefined"), Thrown(WaitRejected)}

\* tx1's receipt had status 1 and its callback ran once, 2000 ms later;
\* tx2's wait was rejected and its callback has not run
C34_Witness ==
    /\ wtx["tx1"].receipt = [isNull |-> FALSE, status |-> 1]
    /\ invoked["tx1"] = <<wtx["tx1"].at + 2000>>
    /\ wtx["tx2"].ret = Thrown(WaitRejected)
    /\ invoked["tx2"] = <<>> /\ TimersOf("tx2") = {}
    /\ now > wtx["tx2"].at + 2000

----------------------------------------------------------------------------
(* GET /stats/:address (SpecStats): part_000:267-305                       *)

\* db.getStats(address) (database.ts:188-205): the counts of the address's
\* pending and approved credit requests, with both credit counts 0
GetStats(address) ==
    LET requests == {id \in DOMAIN creditRequests :
                        ToLowerCase(creditRequests[id].producerAddress) = ToLowerCase(address)}
    IN  [totalCredits |-> 0, activeCredits |-> 0,
         pendingRequests |->
             Cardinality({id \in requests : creditRequests[id].status = "pending"}),
         approvedRequests |->
             Cardinality({id \in requests : creditRequests[id].status = "approved"})]

\* part_000:295-299 `{ ...dbStats, totalCredits, activeCredits }`
SpreadDbStatsLast(dbStats, totalCredits, activeCredits) == dbStats
Spread(dbStats, totalCredits, activeCredits) ==
    [dbStats EXCEPT !.totalCredits = totalCredits, !.activeCredits = activeCredits]

\* part_000:289 `creditsWithStatus.filter(c => !c.isRetired).length`
CountActive(reads) == Cardinality({i \in DOMAIN reads : ~reads[i].value})

\* the errors the backend's isTokenRetired can end with (backend
\* chain.ts:18, 161), as BackendIsTokenRetired and BackendReadSettles
RetiredErrors == {"Failed to connect to blockchain", "isRetired rejected"}

StatsFrame ==
    UNCHANGED <<ledgerVars, poolVars, readVars, submitVars, backendReadVars,
                pageVars, storeVars, refreshVars>>

\* part_000:295-301: the response of the handler
Answer(call) ==
    [call EXCEPT !.pc = "answered",
                 !.res = [status |-> 200, success |-> TRUE,
                          stats |-> Spread(call.dbStats, call.totalCredits,
                                           call.activeCredits)]]

\* the request arrives: up to `await getOwnedTokens(address)`
\* (part_000:268-279)
StatsRequest(r, address) ==
    /\ stat[r].pc \in {"idle", "answered"}
    /\ stat' = [stat EXCEPT ![r] =
                   [NoStatsCall EXCEPT !.pc = "owned", !.dbStats = GetStats(address)]]
    /\ StatsFrame

\* What the backend's getOwnedTokens(address) resolves to.  part_000:6
\* imports it from '../lib/chain'; the function is the engine's outbound
\* `getOwnedTokens(address) -> token ids`, which gives the empty list when
\* its reads are exhausted.
BackendOwnedTokens == {TokenArray(tokens) : tokens \in TokensOfOwner}

\* getOwnedTokens returns tokenIds: totalCredits is set and the retirement
\* reads of Promise.all start; with no token Promise.all resolves at once
\* (part_000:279-289)
OwnedTokensReturn(r, tokenIds) ==
    /\ stat[r].pc = "owned"
    /\ LET call == [stat[r] EXCEPT !.owned = "returned", !.tokenIds = tokenIds,
                                   !.totalCredits = Len(tokenIds),
                                   !.reads = [i \in DOMAIN tokenIds |-> NoReturn]]
       IN  stat' = [stat EXCEPT ![r] =
                       IF tokenIds = <<>>
                       THEN Answer([call EXCEPT !.activeCredits = CountActive(<<>>)])
                       ELSE [call EXCEPT !.pc = "retired"]]
    /\ StatsFrame

\* the call of getOwnedTokens throws (backend chain.ts exports no such
\* function, so the call itself can fail): the inner catch warns and the
\* handler answers with both counts as initialised (part_000:275-292)
OwnedTokensThrow(r) ==
    /\ stat[r].pc = "owned"
    /\ stat' = [stat EXCEPT ![r] = Answer([stat[r] EXCEPT !.owned = "thrown"])]
    /\ StatsFrame

\* isTokenRetired(tokenIds[i]) returns: when it was the last read pending,
\* Promise.all resolves and activeCredits is counted (part_000:282-289)
RetiredReturn(r, i, isRetired) ==
    /\ stat[r].pc = "retired"
    /\ i \in DOMAIN stat[r].reads
    /\ stat[r].reads[i] = NoReturn
    /\ LET reads == [stat[r].reads EXCEPT ![i] = ReturnOf(isRetired)]
           call == [stat[r] EXCEPT !.reads = reads]
       IN  stat' = [stat EXCEPT ![r] =
                       IF \A j \in DOMAIN reads : reads[j].kind = "returned"
                       THEN Answer([call EXCEPT !.activeCredits = CountActive(reads)])
                       ELSE call]
    /\ StatsFrame

\* isTokenRetired(tokenIds[i]) throws: Promise.all rejects, the inner catch
\* warns and the handler answers (part_000:282-292); the reads still
\* pending are left behind
RetiredThrow(r, i, err) ==
    /\ stat[r].pc = "retired"
    /\ i \in DOMAIN stat[r].reads
    /\ stat[r].reads[i] = NoReturn
    /\ stat' = [stat EXCEPT ![r] =
                   Answer([stat[r] EXCEPT !.reads[i] = Thrown(err)])]
    /\ StatsFrame

GetStatsRoute == \E r \in StatsCalls : \E a \in Addresses : StatsRequest(r, a)
OwnershipRead ==
    \E r \in StatsCalls : \E tokenIds \in BackendOwnedTokens :
        OwnedTokensReturn(r, tokenIds)
OwnershipFails == \E r \in StatsCalls : OwnedTokensThrow(r)
RetirementRead ==
    \E r \in StatsCalls : \E i \in {1, 2} : \E b \in BOOLEAN : RetiredReturn(r, i, b)
RetirementFails ==
    \E r \in StatsCalls : \E i \in {1, 2} : \E err \in RetiredErrors :
        RetiredThrow(r, i, err)

StatsNext ==
    \/ GetStatsRoute \/ OwnershipRead \/ OwnershipFails
    \/ RetirementRead \/ RetirementFails

SpecStats == Init /\ [][StatsNext]_vars

\* C36: the /stats/:address handler always answers successfully with
\* activeCredits <= totalCredits, whatever chain reads fail.  Every answer
\* has status 200 and success = true; when the ownership read failed (it
\* threw, or gave up with the empty list) both counts are 0; when it
\* returned n tokens and a retirement read failed, totalCredits is n and
\* activeCredits is 0; when every read succeeded, totalCredits is n and
\* activeCredits is the number of tokens read as not retired.
C36_StatsAlwaysAnswers ==
    \A r \in StatsCalls :
        LET c == stat[r]
            n == Len(c.tokenIds)
            failed == {i \in DOMAIN c.reads : c.reads[i].kind = "thrown"}
            live == {i \in DOMAIN c.reads :
                        c.reads[i].kind = "returned" /\ c.reads[i].value = FALSE}
        IN  /\ c.pc = "answered" =>
                  /\ c.res.status = 200 /\ c.res.success
                  /\ c.res.stats.activeCredits <= c.res.stats.totalCredits
                  /\ c.res.stats.totalCredits = n
                  /\ (c.owned = "thrown" \/ n = 0) =>
                        (c.res.stats.totalCredits = 0 /\ c.res.stats.activeCredits = 0)
                  /\ failed # {} => c.res.stats.activeCredits = 0
                  /\ (c.owned = "returned" /\ failed = {}) =>
                        c.res.stats.activeCredits = Cardinality(live)
            /\ c.pc # "answered" => c.res = NoAnswer

\* two tokens are owned, the first is read as not retired, the read of the
\* second failed: the answer counts 2 credits, none active
C36_Witness ==
    \E r \in StatsCalls :
        /\ stat[r].pc = "answered"
        /\ stat[r].tokenIds = <<1, 2>>
        /\ stat[r].reads[1] = ReturnOf(FALSE)
        /\ stat[r].reads[2].kind = "thrown"
        /\ stat[r].res.stats.totalCredits = 2
        /\ stat[r].res.stats.activeCredits = 0

====
